---- MODULE Spec2Model ----
(***************************************************************************)
(* Multi-source pool / vault reconciliation and upsert pipeline            *)
(* (awesomegusS/tm-vov-dashboard).                                         *)
(*                                                                         *)
(* The model covers                                                        *)
(*   - the row builders and the upsert transaction of                      *)
(*     src/src/pipelines/flows/evm_pools.py (persist_evm_pools),           *)
(*   - the sequential fetch / merge / persist flow sync_evm_pools_flow,    *)
(*   - the vault flow of src/src/pipelines/flows/upsert_vaults.py          *)
(*     (upsert_vault_rows, upsert_metric_rows, upsert_vault_metrics_flow). *)
(*                                                                         *)
(* Encoding of Python values.  A value is a tuple: None is <<>> and any    *)
(* other value v is <<v>>.  A dict is a function whose DOMAIN is its key   *)
(* set, so an absent key and a key bound to None are different things.     *)
(* A table of the store is a set of rows (records over the column names).  *)
(* Datetimes are integers; the clock `now` gives datetime.now().           *)
(***************************************************************************)
EXTENDS Integers, Sequences, FiniteSets, TLC

(***************************************************************************)
(* Bounds of the model.                                                    *)
(***************************************************************************)
\* rows per statement; the program uses 1000 (evm_pools.py:197,
\* upsert_vaults.py:64 and :329), scaled down so that a call of a few rows
\* already spans several statements
BATCH == 2
\* longest pool list handed to a direct persist_evm_pools call
MaxPools == 3
\* number of calls / runs that read the clock
MaxClock == 2
\* longest list one adapter returns in a flow run
MaxFetch == 1
\* number of sync_evm_pools_flow runs
MaxFlowRuns == 1
\* longest stats payload / details dict of the vault flow
MaxVaults == 2
\* number of vault runs and metric task runs that read the clock
MaxVaultClock == 3

(***************************************************************************)
(* Python values                                                           *)
(***************************************************************************)
None == <<>>

Some(x) == <<x>>

\* dict.get(k)
Get(p, k) == IF k \in DOMAIN p THEN p[k] ELSE None

\* truthiness of a str-or-None value
TruthyStr(v) == v # None /\ v # <<"">>

\* truthiness of a number-or-None value
TruthyNum(v) == v # None /\ v # <<0>>

\* `a or b` on str-or-None values
OrStr(a, b) == IF TruthyStr(a) THEN a ELSE b

\* `a if a is not None else b`
IfNotNone(a, b) == IF a # None THEN a ELSE b

\* d[k] = v on a dict
DictSet(p, k, v) == [x \in DOMAIN p \cup {k} |-> IF x = k THEN v ELSE p[x]]

Range(s) == {s[i] : i \in DOMAIN s}

\* the sequences over S of length at most n
SeqUpTo(S, n) == UNION {[1..k -> S] : k \in 0..n}

(***************************************************************************)
(* Symbols.  TLC cannot index into a string, so every symbol the model     *)
(* uses is spelled out as its character sequence; lower(), upper() and the *)
(* substring test are then computed on the characters.                     *)
(***************************************************************************)
Symbols == {"USDC", "ETH", "kUSDC-ETH", "usdc-lp", ""}

Chars(s) ==
  CASE s = "USDC"      -> <<"U", "S", "D", "C">>
    [] s = "ETH"       -> <<"E", "T", "H">>
    [] s = "kUSDC-ETH" -> <<"k", "U", "S", "D", "C", "-", "E", "T", "H">>
    [] s = "usdc-lp"   -> <<"u", "s", "d", "c", "-", "l", "p">>
    [] s = "UNKNOWN"   -> <<"U", "N", "K", "N", "O", "W", "N">>
    [] s = "HyperEVM"    -> <<"H", "y", "p", "e", "r", "E", "V", "M">>
    [] s = "Hyperliquid" -> <<"H", "y", "p", "e", "r", "l", "i", "q", "u", "i", "d">>
    [] s = "Ethereum"    -> <<"E", "t", "h", "e", "r", "e", "u", "m">>
    [] OTHER           -> <<>>

LowerChar(c) ==
  CASE c = "U" -> "u" [] c = "S" -> "s" [] c = "D" -> "d" [] c = "C" -> "c"
    [] c = "E" -> "e" [] c = "T" -> "t" [] c = "H" -> "h" [] c = "N" -> "n"
    [] c = "K" -> "k" [] c = "O" -> "o" [] c = "W" -> "w" [] c = "V" -> "v"
    [] c = "M" -> "m"
    [] OTHER -> c

UpperChar(c) ==
  CASE c = "u" -> "U" [] c = "s" -> "S" [] c = "d" -> "D" [] c = "c" -> "C"
    [] c = "k" -> "K" [] c = "l" -> "L" [] c = "p" -> "P"
    [] OTHER -> c

\* str.lower()
Lower(cs) == [i \in DOMAIN cs |-> LowerChar(cs[i])]

\* str.upper()
Upper(cs) == [i \in DOMAIN cs |-> UpperChar(cs[i])]

\* `needle in hay` on character sequences
Contains(hay, needle) ==
  \E i \in 1..(Len(hay) - Len(needle) + 1) :
     SubSeq(hay, i, i + Len(needle) - 1) = needle

\* "usdc" in str(symbol or "").lower()
SymbolHasUsdc(sym) ==
  LET s == IF TruthyStr(sym) THEN sym[1] ELSE ""
  IN  Contains(Lower(Chars(s)), <<"u", "s", "d", "c">>)

\* "USDC" in symbol.upper(), the adapters' own flag
AdapterUsdcFlag(s) == Contains(Upper(Chars(s)), <<"U", "S", "D", "C">>)

\* flag_usdc_pools: pool["accepts_usdc"] = "usdc" in symbol.lower()
flag_usdc_pools(pools) ==
  [i \in DOMAIN pools |->
     DictSet(pools[i], "accepts_usdc", Some(SymbolHasUsdc(Get(pools[i], "symbol"))))]

(***************************************************************************)
(* Timestamps.  Raw upstream timestamps and datetimes are counted in units *)
(* of 10^6 seconds, so the 1e12 threshold of the source is 10^6 here and   *)
(* 1 700 000 000 s is 1700.                                                *)
(***************************************************************************)
MillisThreshold == 1000000
\* the last second datetime.fromtimestamp accepts (year 9999), 253 402 300 799
MaxTimestamp == 253402

\* a conversion that reads every value as seconds
timestamp_as_seconds(value, now) ==
  IF value = None THEN now
  ELSE IF value[1] > MaxTimestamp THEN now ELSE value[1]

\* _timestamp_to_datetime_utc: float(value), the milliseconds heuristic,
\* datetime.fromtimestamp; an exception of either gives `now`
timestamp_to_datetime_utc(value, now) ==
  IF value = None THEN now
  ELSE LET ts == IF value[1] > MillisThreshold THEN value[1] \div 1000 ELSE value[1]
       IN  IF ts > MaxTimestamp THEN now ELSE ts

(***************************************************************************)
(* Canonical row builders (evm_pools.py)                                   *)
(***************************************************************************)
\* a list item that is not a dict
NonDict == [__nondict__ |-> Some(TRUE)]

IsDict(p) == "__nondict__" \notin DOMAIN p

\* p.get("pool") or p.get("pool_id")
PoolIdOf(p) == OrStr(Get(p, "pool"), Get(p, "pool_id"))

\* the items the two builders keep
Buildable(p) == IsDict(p) /\ TruthyStr(PoolIdOf(p))

\* contract_address with its fallbacks (address, contractAddress, first
\* underlying token)
ContractAddressOf(p) ==
  LET ca == Get(p, "contract_address")
      alt == OrStr(Get(p, "address"), Get(p, "contractAddress"))
      underlying == Get(p, "underlyingTokens")
  IN  IF TruthyStr(ca) THEN ca
      ELSE IF ~TruthyStr(alt) /\ underlying # None /\ Len(underlying[1]) > 0
           THEN Some(underlying[1][1])
           ELSE alt

\* bool(p.get("accepts_usdc", False))
AcceptsUsdcOf(p) == LET v == Get(p, "accepts_usdc") IN v # None /\ v[1] = TRUE

EvmPoolRow(p, now) ==
  [ pool_id               |-> PoolIdOf(p),
    protocol              |-> OrStr(Get(p, "protocol"), Get(p, "project")),
    name                  |-> OrStr(OrStr(Get(p, "name"), Get(p, "poolMeta")), Get(p, "symbol")),
    symbol                |-> Get(p, "symbol"),
    contract_address      |-> ContractAddressOf(p),
    accepts_usdc          |-> Some(AcceptsUsdcOf(p)),
    ltv                   |-> Get(p, "ltv"),
    liquidation_threshold |-> Get(p, "liquidation_threshold"),
    liquidation_bonus     |-> Get(p, "liquidation_bonus"),
    reserve_factor        |-> Get(p, "reserve_factor"),
    decimals              |-> Get(p, "decimals"),
    source                |-> OrStr(Get(p, "source"), Some("defillama")),
    created_at            |-> Some(now),
    updated_at            |-> Some(now) ]

\* entity rows only for the pools flagged as accepting the stablecoin
build_rows_usdc_only(pools, now) ==
  LET Keep(p) == Buildable(p) /\ AcceptsUsdcOf(p)
      kept == SelectSeq(pools, Keep)
  IN  [i \in DOMAIN kept |-> EvmPoolRow(kept[i], now)]

\* build_evm_pool_rows
build_evm_pool_rows(pools, now) ==
  LET kept == SelectSeq(pools, Buildable)
  IN  [i \in DOMAIN kept |-> EvmPoolRow(kept[i], now)]

\* the metric time key: the upstream timestamp when it is truthy, else now
MetricTimeOf(p, now) ==
  LET ts_val == Get(p, "timestamp")
  IN  IF TruthyNum(ts_val) THEN timestamp_to_datetime_utc(ts_val, now) ELSE now

EvmPoolMetricRow(p, now) ==
  [ timestampz          |-> Some(MetricTimeOf(p, now)),
    pool_id             |-> PoolIdOf(p),
    tvl_usd             |-> IfNotNone(Get(p, "tvl_usd"), Get(p, "tvlUsd")),
    apy_base            |-> IfNotNone(Get(p, "apy_base"), Get(p, "apyBase")),
    apy_reward          |-> IfNotNone(Get(p, "apy_reward"), Get(p, "apyReward")),
    apy_total           |-> IfNotNone(Get(p, "apy_total"), Get(p, "apy")),
    total_debt_usd      |-> Get(p, "total_debt_usd"),
    utilization_rate    |-> Get(p, "utilization_rate"),
    apy_borrow_variable |-> Get(p, "apy_borrow_variable"),
    apy_borrow_stable   |-> Get(p, "apy_borrow_stable"),
    created_at          |-> Some(now),
    updated_at          |-> Some(now) ]

\* metric rows for every dict item, with or without an identifier
build_metric_rows_all_dicts(pools, now) ==
  LET kept == SelectSeq(pools, IsDict)
  IN  [i \in DOMAIN kept |-> EvmPoolMetricRow(kept[i], now)]

\* build_evm_pool_metric_rows
build_evm_pool_metric_rows(pools, now) ==
  LET kept == SelectSeq(pools, Buildable)
  IN  [i \in DOMAIN kept |-> EvmPoolMetricRow(kept[i], now)]

(***************************************************************************)
(* The store.  INSERT ... ON CONFLICT (key) DO UPDATE SET cols = excluded  *)
(* as PostgreSQL executes it: a statement whose VALUES list proposes two   *)
(* rows with the same conflict key is rejected (cardinality violation:     *)
(* "ON CONFLICT DO UPDATE command cannot affect row a second time"), a row *)
(* whose foreign key has no parent row is rejected, and otherwise every    *)
(* proposed row is inserted, or on a key conflict the stored row takes the *)
(* proposed values of exactly the columns named in SET.                    *)
(***************************************************************************)
KeyOf(r, keyCols) == [c \in keyCols |-> r[c]]

\* two rows of one statement share the conflict key
CardinalityViolation(chunk, keyCols) ==
  \E i, j \in DOMAIN chunk : i # j /\ KeyOf(chunk[i], keyCols) = KeyOf(chunk[j], keyCols)

\* a proposed row references a parent key that is not stored
FkViolation(chunk, fkCol, parents) ==
  \E i \in DOMAIN chunk : chunk[i][fkCol] \notin parents

\* a plain INSERT of the proposed rows, without conflict handling
InsertOnly(table, chunk, keyCols, setCols) == table \cup Range(chunk)

\* a statement that empties the table and inserts the chunk
truncate_and_insert(table, chunk, keyCols, setCols) == {chunk[i] : i \in DOMAIN chunk}

\* the table after the statement, for a statement the store accepts
OnConflictDoUpdate(table, chunk, keyCols, setCols) ==
  LET Hit(e) == {i \in DOMAIN chunk : KeyOf(chunk[i], keyCols) = KeyOf(e, keyCols)}
      Updated(e) ==
        IF Hit(e) = {} THEN e
        ELSE LET r == chunk[CHOOSE i \in Hit(e) : TRUE]
             IN  [c \in DOMAIN e |-> IF c \in setCols THEN r[c] ELSE e[c]]
      Fresh == {chunk[i] : i \in {j \in DOMAIN chunk :
                   \A e \in table : KeyOf(e, keyCols) # KeyOf(chunk[j], keyCols)}}
  IN  {Updated(e) : e \in table} \cup Fresh

\* rows[i : i + BATCH] for the 0-based offset i
Chunk(rows, i) == SubSeq(rows, i + 1, IF i + BATCH < Len(rows) THEN i + BATCH ELSE Len(rows))

\* conflict target and SET list of the evm_pools upsert
EvmPoolKey == {"pool_id"}

\* the SET list without the symbol column
EvmPoolSetNoSymbol ==
  {"protocol", "name", "contract_address", "accepts_usdc", "ltv",
   "liquidation_threshold", "liquidation_bonus", "reserve_factor", "decimals",
   "source", "updated_at"}

EvmPoolSet ==
  {"protocol", "name", "symbol", "contract_address", "accepts_usdc", "ltv",
   "liquidation_threshold", "liquidation_bonus", "reserve_factor", "decimals",
   "source", "updated_at"}

\* conflict target and SET list of the evm_pool_metrics upsert
EvmPoolMetricKey == {"timestampz", "pool_id"}

EvmPoolMetricSet ==
  {"tvl_usd", "apy_base", "apy_reward", "apy_total", "total_debt_usd",
   "utilization_rate", "apy_borrow_variable", "apy_borrow_stable", "updated_at"}

(***************************************************************************)
(* Upstream payloads the model draws its inputs from                       *)
(***************************************************************************)
\* a DeFi Llama pool object; variant 1 is the first payload of
\* tests/test_evm_pools_db_integration.py (timestamp in seconds), variant 2
\* the second one (here with the same instant given in milliseconds)
DlPool(id, v) ==
  IF v = 1
  THEN [ pool |-> Some(id), chain |-> Some("HyperEVM"), project |-> Some("test-protocol"),
         symbol |-> Some("USDC"), tvlUsd |-> Some(123), apyBase |-> Some(1),
         apyReward |-> None, apy |-> Some(1), timestamp |-> Some(1700),
         underlyingTokens |-> Some(<<"0xu1">>) ]
  ELSE [ pool |-> Some(id), chain |-> Some("Hyperliquid"), project |-> Some("test-protocol-2"),
         symbol |-> Some("ETH"), tvlUsd |-> Some(999), apyBase |-> Some(2),
         apyReward |-> Some(3), apy |-> Some(5), timestamp |-> Some(1700000),
         poolMeta |-> Some("meta-2") ]

\* a row as the on-chain adapters emit it (felix_client.py:161-183): keyed
\* by pool_id, no timestamp, flag computed by the adapter from `flagSym`
AdapterPool(id, src, sym, flagSym) ==
  [ source |-> Some(src), protocol |-> Some(src), pool_id |-> Some(id),
    symbol |-> Some(sym), name |-> Some("adapter-pool"),
    contract_address |-> Some("0xc0"), accepts_usdc |-> Some(AdapterUsdcFlag(flagSym)),
    tvl_usd |-> Some(500), total_debt_usd |-> Some(50), utilization_rate |-> Some(10),
    apy_base |-> Some(0), apy_reward |-> Some(0), apy_total |-> Some(0),
    apy_borrow_variable |-> Some(0), apy_borrow_stable |-> Some(0),
    ltv |-> Some(9090), liquidation_threshold |-> Some(11000),
    liquidation_bonus |-> Some(0), decimals |-> Some(18), reserve_factor |-> Some(0) ]

\* an item without identifier (tests/test_evm_pools_processing.py:27)
NoIdPool == [chain |-> Some("Hyperliquid")]

\* the items of a list handed directly to persist_evm_pools
DirectPools ==
  {DlPool("p1", 1), DlPool("p1", 2), AdapterPool("p2", "felix", "kUSDC-ETH", "kUSDC-ETH"), NoIdPool}

(***************************************************************************)
(* State                                                                   *)
(***************************************************************************)
VARIABLES
  clock,             \* number of datetime.now() readings so far
  evm_pools,         \* committed table hyperliquid_vaults_discovery.evm_pools
  evm_pool_metrics,  \* committed table evm_pool_metrics
  epc,               \* position of the running persist_evm_pools call
  pools,             \* its argument
  pool_rows,         \* build_evm_pool_rows(pools)
  metric_rows,       \* build_evm_pool_metric_rows(pools)
  ei,                \* offset i of the batch loop
  etx,               \* tables as seen inside the open transaction
  esnap,             \* committed tables when the running call began (history)
  last,              \* the last finished persist_evm_pools call (history)
  ecaller,           \* who runs persist_evm_pools: "direct" or "flow"
  fetched,           \* sync_evm_pools_flow: the lists fetched so far, in order
  attempt,           \* attempt number of the fetch task that runs next
  frun,              \* the current / last run of sync_evm_pools_flow (history)
  vaults,            \* committed table hyperliquid_vaults_discovery.vaults
  vault_metrics,     \* committed table vault_metrics
  vpc,               \* position of the running vault flow / metric task
  vrows,             \* the rows of the upsert that is running
  vi,                \* offset i of its batch loop
  vtx,               \* the table as seen inside its open transaction
  vsnap,             \* committed tables when the current / last run began (history)
  vrun,              \* the current / last vault run (history)
  aname,             \* adapter whose fetch_pools runs / ran last ("none" before)
  apos,              \* its position: a call site, "idle", "returned" or "raised"
  aitem,             \* index of the item it is processing (0 before the loops)
  acall,             \* the _call_with_retry call that is running
  avals,             \* local variables of the item being processed
  aresults,          \* its `results` list
  ahist,             \* what the run has done so far (history)
  top_500_vaults,    \* committed table hyperliquid_vaults_discovery.top_500_vaults
  tpc,               \* position of the running update_top_500 call
  trows,             \* `rows`, the result of its ranking query
  ttx,               \* top_500_vaults as seen inside its open transaction
  tseen,             \* what the last SELECT of another session returned (history)
  trun,              \* the current / last update_top_500 call (history)
  bpc,               \* position of the fetch_vault_details_batch call
  baddresses,        \* its argument `addresses`
  bworkers,          \* its worker tasks, one per element of `addresses`
  bresults           \* its `results` dict

evars == <<evm_pools, evm_pool_metrics, epc, pools, pool_rows, metric_rows,
           ei, etx, esnap, last, ecaller, fetched, attempt, frun>>

fvars == <<fetched, attempt>>

vvars == <<vaults, vault_metrics, vpc, vrows, vi, vtx, vsnap, vrun>>

avars == <<aname, apos, aitem, acall, avals, aresults, ahist>>

tvars == <<top_500_vaults, tpc, trows, ttx, tseen, trun>>

\* the state outside the pool and vault pipelines
bvars == <<bpc, baddresses, bworkers, bresults>>

xvars == <<avars, tvars, bvars>>

vars == <<clock, evm_pools, evm_pool_metrics, epc, pools, pool_rows, metric_rows,
          ei, etx, esnap, last, ecaller, fetched, attempt, frun,
          vaults, vault_metrics, vpc, vrows, vi, vtx, vsnap, vrun,
          aname, apos, aitem, acall, avals, aresults, ahist,
          top_500_vaults, tpc, trows, ttx, tseen, trun,
          bpc, baddresses, bworkers, bresults>>

\* datetime.now(timezone.utc) at clock reading c
NowAt(c) == 1700 + c

NoTx == [pools |-> {}, metrics |-> {}]

NoCall ==
  [pools |-> <<>>, kind |-> "none", cause |-> "none", at |-> "idle", ret |-> <<0, 0>>,
   again |-> FALSE, overwrote |-> FALSE, nulled |-> FALSE]

\* the record of a call that ends now, for the properties that look back at
\* it: `at` is where the call stood, `again` says that the call before it
\* had the same argument and was not cut short by a store fault, `overwrote`
\* that a returning call changed a value column of an entity row that was
\* stored before it, `nulled` that it replaced a stored metric value by null
Finished(L, kind, cause, ret) ==
  [pools |-> L, kind |-> kind, cause |-> cause, at |-> epc, ret |-> ret,
   again |-> (last.kind # "none" /\ last.pools = L /\ last.cause # "store"),
   overwrote |-> (kind = "returned" /\ \E f \in esnap.pools, e \in etx.pools :
                    e.pool_id = f.pool_id /\ \E c \in DOMAIN e \ {"created_at", "updated_at"} :
                      e[c] # f[c]),
   nulled |-> (kind = "returned" /\ \E f \in esnap.metrics, e \in etx.metrics :
                 /\ e.pool_id = f.pool_id /\ e.timestampz = f.timestampz
                 /\ \E c \in DOMAIN e : f[c] # None /\ e[c] = None)]

NoRun == [n |-> 0, persist |-> TRUE, started |-> {}, raised |-> "none", merged |-> FALSE,
          outcome |-> "none", ret |-> <<0, 0>>]

\* the flow ends when the persist_evm_pools call it awaits ends
EndOfCall(outcome, ret) ==
  IF ecaller = "flow" THEN [frun EXCEPT !.outcome = outcome, !.ret = ret] ELSE frun

EInit ==
  /\ clock = 1
  /\ evm_pools = {}
  /\ evm_pool_metrics = {}
  /\ epc = "idle"
  /\ pools = <<>>
  /\ pool_rows = <<>>
  /\ metric_rows = <<>>
  /\ ei = 0
  /\ etx = NoTx
  /\ esnap = NoTx
  /\ last = NoCall
  /\ ecaller = "direct"
  /\ fetched = <<>>
  /\ attempt = 1
  /\ frun = NoRun

(***************************************************************************)
(* persist_evm_pools, one action per statement of its transaction          *)
(***************************************************************************)
\* a statement that is seen by other sessions as soon as it is executed
SeenAtOnce(committed, working) == working

\* what a statement executed inside `async with session.begin()` leaves
\* visible outside the transaction: the committed table, not the working one
VisibleInTx(committed, working) == committed

\* no rollback: the statements executed before the exception stay
KeepWorking(snapshot, working) == working

\* what leaving the `session.begin()` block by an exception leaves: rollback
RolledBack(snapshot, working) == snapshot

\* lines 189-201: build both row lists, return (0, 0) on no rows, else open
\* the session and the transaction
BeginPersist(L, caller) ==
  LET now == NowAt(clock)
      pr  == build_evm_pool_rows(L, now)
      mr  == build_evm_pool_metric_rows(L, now)
  IN  /\ clock' = clock + 1
      /\ pools' = L
      /\ pool_rows' = pr
      /\ metric_rows' = mr
      /\ ei' = 0
      /\ ecaller' = caller
      /\ UNCHANGED <<evm_pools, evm_pool_metrics>>
      /\ IF pr = <<>>
         THEN /\ epc' = "idle"
              /\ etx' = NoTx
              /\ esnap' = NoTx
              /\ last' = Finished(L, "returned", "none", <<0, 0>>)
         ELSE /\ epc' = "entities"
              /\ etx' = [pools |-> evm_pools, metrics |-> evm_pool_metrics]
              /\ esnap' = [pools |-> evm_pools, metrics |-> evm_pool_metrics]
              /\ last' = last

\* the exception leaves both `async with` blocks: rollback, then the call raises
RaisePersist(cause) ==
  /\ epc' = "idle"
  /\ evm_pools' = RolledBack(esnap.pools, etx.pools)
  /\ evm_pool_metrics' = RolledBack(esnap.metrics, etx.metrics)
  /\ etx' = NoTx
  /\ ei' = 0
  /\ last' = Finished(pools, "raised", cause, <<0, 0>>)
  /\ frun' = EndOfCall("raised", <<0, 0>>)
  /\ UNCHANGED <<clock, pools, pool_rows, metric_rows, esnap, ecaller, fvars, vvars, xvars>>

\* a direct call, as tests/test_evm_pools_db_integration.py makes it:
\* persist_evm_pools(flag_usdc_pools(payload))
PersistCall ==
  /\ epc = "idle"
  /\ vpc = "idle"
  /\ clock <= MaxClock
  /\ \E L \in SeqUpTo(DirectPools, MaxPools) : BeginPersist(flag_usdc_pools(L), "direct")
  /\ UNCHANGED <<fvars, frun, vvars, xvars>>

\* lines 203-224: one entity batch
ExecEntityBatch ==
  /\ epc = "entities"
  /\ LET chunk == Chunk(pool_rows, ei)
     IN  \E fault \in BOOLEAN :
           IF fault THEN RaisePersist("store")
           ELSE IF CardinalityViolation(chunk, EvmPoolKey) THEN RaisePersist("cardinality")
           ELSE /\ etx' = [etx EXCEPT !.pools =
                             OnConflictDoUpdate(etx.pools, chunk, EvmPoolKey, EvmPoolSet)]
                /\ evm_pools' = VisibleInTx(evm_pools, etx'.pools)
                /\ IF ei + BATCH < Len(pool_rows)
                   THEN ei' = ei + BATCH /\ epc' = "entities"
                   ELSE ei' = 0 /\ epc' = "metrics"
                /\ UNCHANGED <<clock, evm_pool_metrics, pools, pool_rows, metric_rows,
                               esnap, last, ecaller, fvars, frun, vvars, xvars>>

\* lines 226-246: one metric batch
ExecMetricBatch ==
  /\ epc = "metrics"
  /\ LET chunk == Chunk(metric_rows, ei)
         parents == {e.pool_id : e \in etx.pools}
     IN  \E fault \in BOOLEAN :
           IF fault THEN RaisePersist("store")
           ELSE IF CardinalityViolation(chunk, EvmPoolMetricKey) THEN RaisePersist("cardinality")
           ELSE IF FkViolation(chunk, "pool_id", parents) THEN RaisePersist("fk")
           ELSE /\ etx' = [etx EXCEPT !.metrics =
                             OnConflictDoUpdate(etx.metrics, chunk, EvmPoolMetricKey,
                                                EvmPoolMetricSet)]
                /\ evm_pool_metrics' = VisibleInTx(evm_pool_metrics, etx'.metrics)
                /\ IF ei + BATCH < Len(metric_rows)
                   THEN ei' = ei + BATCH /\ epc' = "metrics"
                   ELSE ei' = 0 /\ epc' = "commit"
                /\ UNCHANGED <<clock, evm_pools, pools, pool_rows, metric_rows,
                               esnap, last, ecaller, fvars, frun, vvars, xvars>>

\* leaving `async with session.begin()` normally: commit, then line 249
CommitPersist ==
  /\ epc = "commit"
  /\ \E fault \in BOOLEAN :
       IF fault THEN RaisePersist("store")
       ELSE /\ evm_pools' = etx.pools
            /\ evm_pool_metrics' = etx.metrics
            /\ epc' = "idle"
            /\ etx' = NoTx
            /\ esnap' = NoTx
            /\ last' = Finished(pools, "returned", "none", <<Len(pool_rows), Len(metric_rows)>>)
            /\ frun' = EndOfCall("returned", <<Len(pool_rows), Len(metric_rows)>>)
            /\ UNCHANGED <<clock, pools, pool_rows, metric_rows, ei, ecaller, fvars, vvars, xvars>>

(***************************************************************************)
(* Source adapters as the flow sees them: one attempt of a fetch task      *)
(* either raises or returns a list.                                        *)
(***************************************************************************)
Raise == [raised |-> TRUE, list |-> <<>>]

Return(l) == [raised |-> FALSE, list |-> l]

\* PROTOCOL_NAME of the adapter whose rows carry source `src`
ProtocolName(src) ==
  CASE src = "felix" -> "Felix" [] src = "hyperlend" -> "Hyperlend"
    [] src = "hypurrfi" -> "HypurrFi" [] src = "hyperbeat" -> "Hyperbeat"
    [] OTHER -> src

\* the row an on-chain adapter appends for one item
AdapterRow(id, src, sym, flagSym) ==
  [AdapterPool(id, src, sym, flagSym) EXCEPT !.protocol = Some(ProtocolName(src))]

\* the chain test of get_hyperliquid_pools:
\* (item.get("chain") or "").lower() in {"hyperliquid", "hyperevm"}
ChainMatches(item) ==
  LET c == Get(item, "chain")
      lc == Lower(Chars(IF TruthyStr(c) THEN c[1] ELSE ""))
  IN  lc \in {Lower(Chars("Hyperliquid")), Lower(Chars("HyperEVM"))}

\* DefiLlamaClient.get_hyperliquid_pools on one HTTP exchange: a transport
\* error or a non-success status raises, otherwise the "data" list is
\* filtered by chain
get_hyperliquid_pools(resp) ==
  IF resp.status # "ok" THEN Raise
  ELSE Return(SelectSeq(resp.data, ChainMatches))

\* what the yields endpoint may answer
DlItems ==
  {DlPool("p1", 1), DlPool("p2", 2), [DlPool("p2", 1) EXCEPT !.chain = Some("Ethereum")],
   NoIdPool}

DefiLlamaResponses ==
  {[status |-> "error", data |-> <<>>]} \cup
  {[status |-> "ok", data |-> d] : d \in SeqUpTo(DlItems, MaxFetch)}

\* FelixClient.fetch_pools: [] when the provider is not connected (line
\* 109-111); the block_number read of line 113 is outside every try and
\* lets an RPC error escape; afterwards each item is appended or skipped
FelixItems ==
  {AdapterRow("p1", "felix", "USDC", "USDC"), AdapterRow("p2", "felix", "ETH", "USDC")}

FelixOutcomes ==
  {Return(<<>>), Raise} \cup {Return(l) : l \in SeqUpTo(FelixItems, MaxFetch)}

\* HyperlendClient.fetch_pools
HyperlendItems == {AdapterRow("p1", "hyperlend", "ETH", "ETH")}

HyperlendOutcomes ==
  {Return(<<>>)} \cup {Return(l) : l \in SeqUpTo(HyperlendItems, MaxFetch)}

\* HypurrFiClient.fetch_pools: [] when not connected (line 103-105); the
\* block_number read and the getPool / getPriceOracle / getReservesList
\* calls of lines 107-116 are outside the per-item try
HypurrFiItems ==
  {AdapterRow("p1", "hypurrfi", "kUSDC-ETH", "kUSDC-ETH"),
   AdapterRow("p2", "hypurrfi", "ETH", "ETH")}

HypurrFiOutcomes ==
  {Return(<<>>), Raise} \cup {Return(l) : l \in SeqUpTo(HypurrFiItems, MaxFetch)}

\* HyperbeatClient.fetch_pools: [] when not connected, and every later RPC
\* call is inside the per-item try
HyperbeatItems ==
  {AdapterRow("p2", "hyperbeat", "UNKNOWN", "UNKNOWN"),
   AdapterRow("p1", "hyperbeat", "USDC", "USDC")}

HyperbeatOutcomes ==
  {Return(<<>>)} \cup {Return(l) : l \in SeqUpTo(HyperbeatItems, MaxFetch)}

\* a flow that calls the on-chain adapters before the aggregator
AdaptersOnChainFirst == <<"felix", "hyperlend", "hypurrfi", "hyperbeat", "defillama">>

\* the fetch tasks in the order the flow calls them
Adapters == <<"defillama", "felix", "hyperlend", "hypurrfi", "hyperbeat">>

\* one attempt of the task body of adapter a
TaskOutcomes(a) ==
  CASE a = "defillama" -> {get_hyperliquid_pools(r) : r \in DefiLlamaResponses}
    [] a = "felix"     -> FelixOutcomes
    [] a = "hyperlend" -> HyperlendOutcomes
    [] a = "hypurrfi"  -> HypurrFiOutcomes
    [] a = "hyperbeat" -> HyperbeatOutcomes

\* @task(retries=5, ...): a raising attempt is repeated up to 5 times
TaskRetries == 5

(***************************************************************************)
(* sync_evm_pools_flow                                                     *)
(***************************************************************************)
\* s1 + s2 + ... of a sequence of lists
RECURSIVE Concat(_)
Concat(ls) == IF ls = <<>> THEN <<>> ELSE Head(ls) \o Concat(Tail(ls))

\* the by_id loop of lines 349-361, `acc` being list(by_id.values()) so far:
\* a dict keeps a key at the position of its first insertion and binds it to
\* the value assigned last
RECURSIVE DedupeById(_, _)
DedupeById(all, acc) ==
  IF all = <<>> THEN acc
  ELSE LET p    == Head(all)
           pid  == PoolIdOf(p)
           p2   == IF "pool" \notin DOMAIN p THEN DictSet(p, "pool", pid) ELSE p
           at   == {i \in DOMAIN acc : PoolIdOf(acc[i]) = pid}
       IN  IF ~TruthyStr(pid) THEN DedupeById(Tail(all), acc)
           ELSE IF at = {} THEN DedupeById(Tail(all), Append(acc, p2))
           ELSE DedupeById(Tail(all), [acc EXCEPT ![CHOOSE i \in at : TRUE] = p2])

\* a merge in which the first source to return an identifier keeps it
RECURSIVE KeepFirstById(_, _)
KeepFirstById(all, acc) ==
  IF all = <<>> THEN acc
  ELSE LET p   == Head(all)
           pid == PoolIdOf(p)
           p2  == IF "pool" \notin DOMAIN p THEN DictSet(p, "pool", pid) ELSE p
       IN  IF ~TruthyStr(pid) \/ \E i \in DOMAIN acc : PoolIdOf(acc[i]) = pid
           THEN KeepFirstById(Tail(all), acc)
           ELSE KeepFirstById(Tail(all), Append(acc, p2))

MergeFirstWins(lists) == KeepFirstById(Concat(lists), <<>>)

\* lines 327-363
MergePools(lists) == DedupeById(Concat(lists), <<>>)

\* the flow is called: line 295-303
FlowStart ==
  /\ epc = "idle"
  /\ vpc = "idle"
  /\ clock <= MaxClock
  /\ frun.n < MaxFlowRuns
  /\ \E persist \in BOOLEAN :
       frun' = [n |-> frun.n + 1, persist |-> persist, started |-> {}, raised |-> "none",
                merged |-> FALSE, outcome |-> "running", ret |-> <<0, 0>>]
  /\ epc' = "fetch"
  /\ fetched' = <<>>
  /\ attempt' = 1
  /\ UNCHANGED <<clock, evm_pools, evm_pool_metrics, pools, pool_rows, metric_rows,
                 ei, etx, esnap, last, ecaller, vvars, xvars>>

\* lines 306-324: the next fetch task runs one attempt; the flow has no
\* handler around the task calls, so a task that still raises after its
\* retries ends the flow run
FetchTask ==
  /\ epc = "fetch"
  /\ LET a == Adapters[Len(fetched) + 1]
     IN  \E out \in TaskOutcomes(a) :
           IF out.raised
           THEN IF attempt <= TaskRetries
                THEN /\ attempt' = attempt + 1
                     /\ frun' = [frun EXCEPT !.started = @ \cup {a}]
                     /\ UNCHANGED <<epc, fetched>>
                ELSE /\ epc' = "idle"
                     /\ attempt' = 1
                     /\ frun' = [frun EXCEPT !.started = @ \cup {a}, !.raised = a,
                                             !.outcome = "raised"]
                     /\ UNCHANGED fetched
           ELSE /\ fetched' = Append(fetched, out.list)
                /\ attempt' = 1
                /\ frun' = [frun EXCEPT !.started = @ \cup {a}]
                /\ epc' = IF Len(fetched) + 1 = Len(Adapters) THEN "merge" ELSE "fetch"
  /\ UNCHANGED <<clock, evm_pools, evm_pool_metrics, pools, pool_rows, metric_rows,
                 ei, etx, esnap, last, ecaller, vvars, xvars>>

\* lines 327-378: merge, then the dry-run return or persist_evm_pools_task
MergeAndPersist ==
  /\ epc = "merge"
  /\ LET merged == MergePools(fetched)
         now == NowAt(clock)
         pr == build_evm_pool_rows(merged, now)
         mr == build_evm_pool_metric_rows(merged, now)
     IN  IF ~frun.persist
         THEN /\ frun' = [frun EXCEPT !.merged = TRUE, !.outcome = "returned",
                                      !.ret = <<Len(pr), Len(mr)>>]
              /\ epc' = "idle"
              /\ clock' = clock + 1
              /\ pools' = merged
              /\ pool_rows' = pr
              /\ metric_rows' = mr
              /\ UNCHANGED <<evm_pools, evm_pool_metrics, ei, etx, esnap, last, ecaller>>
         ELSE /\ BeginPersist(merged, "flow")
              /\ frun' = IF pr = <<>>
                         THEN [frun EXCEPT !.merged = TRUE, !.outcome = "returned"]
                         ELSE [frun EXCEPT !.merged = TRUE]
  /\ UNCHANGED <<fvars, vvars, xvars>>

(***************************************************************************)
(* Vault registry payloads and row builders (upsert_vaults.py)             *)
(***************************************************************************)
\* truthiness of a bool-or-None value
TruthyBool(v) == v # None /\ v[1]

\* `d.get(k) or {}` for a dict-valued key
SubDict(d, k) == IF Get(d, k) # None THEN Get(d, k)[1] ELSE <<>>

\* _convert_millis_to_datetime: int(ts) / 1000.0 as a datetime, None when
\* createTimeMillis is missing or 0
convert_millis_to_datetime(v) ==
  LET ts == Get(v, "createTimeMillis")
  IN  IF TruthyNum(ts) THEN Some(ts[1] \div 1000) ELSE None

\* one item of the stats list with an address
VaultRow(v, now) ==
  LET summary == SubDict(v, "summary")
  IN  [ vault_address     |-> OrStr(Get(summary, "vaultAddress"), Get(v, "vaultAddress")),
        name              |-> OrStr(Get(summary, "name"), Get(v, "name")),
        leader_address    |-> OrStr(Get(summary, "leader"), Get(v, "leader")),
        description       |-> OrStr(Get(v, "description"), Get(summary, "description")),
        tvl_usd           |-> Get(summary, "tvl"),
        is_closed         |-> Some(TruthyBool(Get(summary, "isClosed"))
                                     \/ TruthyBool(Get(v, "isClosed"))),
        relationship_type |-> OrStr(Get(SubDict(v, "relationship"), "type"),
                                    Get(summary, "relationshipType")),
        vault_create_time |-> convert_millis_to_datetime(summary),
        created_at        |-> Some(now),
        updated_at        |-> Some(now) ]

HasVaultAddress(v) ==
  TruthyStr(OrStr(Get(SubDict(v, "summary"), "vaultAddress"), Get(v, "vaultAddress")))

\* build_vault_rows: one row per item with an address, in order; the same
\* address twice gives two rows
build_vault_rows(vaults_json, now) ==
  LET kept == SelectSeq(vaults_json, HasVaultAddress)
  IN  [i \in DOMAIN kept |-> VaultRow(kept[i], now)]

\* is_closed as _extract_addresses_from_vaults_json reads it
IsClosedOf(v) ==
  LET c == Get(SubDict(v, "summary"), "isClosed")
  IN  TruthyBool(IF c = None THEN Get(v, "isClosed") ELSE c)

\* the order-preserving `seen` loop
RECURSIVE Unique(_, _)
Unique(addrs, out) ==
  IF addrs = <<>> THEN out
  ELSE Unique(Tail(addrs),
              IF Head(addrs) \in Range(out) THEN out ELSE Append(out, Head(addrs)))

\* _extract_addresses_from_vaults_json
extract_addresses_from_vaults_json(vaults_json, active_only) ==
  LET Keep(v) == HasVaultAddress(v) /\ ~(active_only /\ IsClosedOf(v))
      kept == SelectSeq(vaults_json, Keep)
  IN  Unique([i \in DOMAIN kept |->
                OrStr(Get(SubDict(kept[i], "summary"), "vaultAddress"),
                      Get(kept[i], "vaultAddress"))[1]], <<>>)

\* conflict target and SET list of the vaults upsert
VaultKey == {"vault_address"}

\* the SET list with created_at added
VaultSetWithCreatedAt ==
  {"name", "leader_address", "is_closed", "description", "tvl_usd", "relationship_type",
   "vault_create_time", "created_at", "updated_at"}

VaultSet ==
  {"name", "leader_address", "is_closed", "description", "tvl_usd", "relationship_type",
   "vault_create_time", "updated_at"}

\* a stats item in the registry's nested form
StatVault(addr, nm, closed) ==
  [ summary |-> Some([ vaultAddress |-> Some(addr), name |-> Some(nm), leader |-> Some("0xl1"),
                       tvl |-> Some(1000), isClosed |-> Some(closed),
                       relationshipType |-> Some("normal"),
                       createTimeMillis |-> Some(1600000) ]) ]

\* a stats item that carries its fields at top level only
FlatVault(addr) == [vaultAddress |-> Some(addr), name |-> Some("flat"), isClosed |-> Some(FALSE)]

\* what the stats endpoint may list
StatsItems ==
  {StatVault("0xa1", "Vault A", FALSE), StatVault("0xa1", "Vault A2", TRUE),
   FlatVault("0xa2"), [summary |-> Some(<<>>)]}

(***************************************************************************)
(* Vault details payloads and build_metric_rows_from_details.  A portfolio *)
(* is a list of <<period, body>> pairs; a history is a list of             *)
(* <<timestamp_ms, value>> points.  Account values are chosen so that the  *)
(* drawdown percentage is a whole number.                                  *)
(***************************************************************************)
\* `d.get(k) or []` for a list-valued key
SubList(d, k) == IF Get(d, k) # None THEN Get(d, k)[1] ELSE <<>>

\* the pairs of the portfolio whose key is the period
PairsOf(portfolio, period) ==
  LET Is(pair) == pair # <<>> /\ pair[1] = period IN SelectSeq(portfolio, Is)

\* body = pair[1] if len(pair) > 1 else {}
BodyOf(pair) == IF Len(pair) > 1 THEN pair[2] ELSE <<>>

\* _extract_pnl: the last pnlHistory value of the first pair of the period
\* that has a history
extract_pnl(portfolio, period_key) ==
  LET Has(pair) == SubList(BodyOf(pair), "pnlHistory") # <<>>
      with == SelectSeq(PairsOf(portfolio, period_key), Has)
  IN  IF with = <<>> THEN None
      ELSE LET h == SubList(BodyOf(with[1]), "pnlHistory") IN Some(h[Len(h)][2])

\* _extract_volume: the vlm of the first pair of the period
extract_volume(portfolio, period_key) ==
  LET ps == PairsOf(portfolio, period_key)
  IN  IF ps = <<>> THEN None ELSE Get(BodyOf(ps[1]), "vlm")

\* a loop that measures every value against the first one
RECURSIVE DrawdownFromFirst(_, _, _)
DrawdownFromFirst(values, peak, max_dd) ==
  IF values = <<>> THEN max_dd
  ELSE LET dd == IF peak > 0 THEN ((peak - Head(values)) * 100) \div peak ELSE 0
       IN  DrawdownFromFirst(Tail(values), peak, IF dd > max_dd THEN dd ELSE max_dd)

\* the peak / max_dd loop of _calculate_max_drawdown, as a positive percent
RECURSIVE DrawdownPct(_, _, _)
DrawdownPct(values, peak, max_dd) ==
  IF values = <<>> THEN max_dd
  ELSE LET v == Head(values)
           pk == IF v > peak THEN v ELSE peak
           dd == IF pk > 0 THEN ((pk - v) * 100) \div pk ELSE 0
       IN  DrawdownPct(Tail(values), pk, IF dd > max_dd THEN dd ELSE max_dd)

\* _calculate_max_drawdown
calculate_max_drawdown(portfolio, period_key) ==
  LET ps == PairsOf(portfolio, period_key)
  IN  IF ps = <<>> THEN None
      ELSE LET acc == SubList(BodyOf(ps[1]), "accountValueHistory")
               values == [i \in DOMAIN acc |-> acc[i][2]]
           IN  IF values = <<>> THEN None ELSE Some(DrawdownPct(values, values[1], 0))

\* pick_ts of _extract_timestamp
pick_ts(portfolio, period) ==
  LET ps == PairsOf(portfolio, period)
  IN  IF ps = <<>> THEN None
      ELSE LET pnl == SubList(BodyOf(ps[1]), "pnlHistory")
               acc == SubList(BodyOf(ps[1]), "accountValueHistory")
           IN  IF pnl # <<>> THEN Some(pnl[Len(pnl)][1])
               ELSE IF acc # <<>> THEN Some(acc[Len(acc)][1])
               ELSE None

\* the periods _extract_timestamp tries, in order
TimestampPeriods ==
  <<"day", "week", "month", "allTime", "perpDay", "perpWeek", "perpMonth", "perpAllTime">>

RECURSIVE FirstTs(_, _)
FirstTs(portfolio, periods) ==
  IF periods = <<>> THEN None
  ELSE LET ts == pick_ts(portfolio, Head(periods))
       IN  IF ts # None THEN ts ELSE FirstTs(portfolio, Tail(periods))

\* the last resort of _extract_timestamp: the latest end point of any history
LastResortTs(portfolio) ==
  LET Ends(pair) ==
        IF Len(pair) < 2 THEN {}
        ELSE {h[Len(h)][1] : h \in {SubList(pair[2], "pnlHistory"),
                                    SubList(pair[2], "accountValueHistory")} \ {<<>>}}
      candidates == UNION {Ends(portfolio[i]) : i \in DOMAIN portfolio}
  IN  IF candidates = {} THEN None
      ELSE Some(CHOOSE m \in candidates : \A c \in candidates : c <= m)

\* _extract_timestamp: millis -> datetime, None when no history has a point
extract_timestamp(portfolio) ==
  LET ts == IfNotNone(FirstTs(portfolio, TimestampPeriods), LastResortTs(portfolio))
  IN  IF ts = None \/ ts[1] \div 1000 > MaxTimestamp THEN None ELSE Some(ts[1] \div 1000)

\* the row of one address whose payload is kept
VaultMetricRow(addr, v, now) ==
  LET portfolio == SubList(v, "portfolio")
      ts == extract_timestamp(portfolio)
  IN  [ timestampz            |-> IF ts # None THEN ts ELSE Some(now),
        vault_address         |-> Some(addr),
        max_distributable_tvl |-> Get(v, "maxDistributable"),
        apr                   |-> Get(v, "apr"),
        leader_commission     |-> Get(v, "leaderCommission"),
        follower_count        |-> Some(Len(SubList(v, "followers"))),
        pnl_day               |-> extract_pnl(portfolio, "day"),
        pnl_week              |-> extract_pnl(portfolio, "week"),
        pnl_month             |-> extract_pnl(portfolio, "month"),
        pnl_all_time          |-> extract_pnl(portfolio, "allTime"),
        vlm_day               |-> extract_volume(portfolio, "day"),
        vlm_week              |-> extract_volume(portfolio, "week"),
        vlm_month             |-> extract_volume(portfolio, "month"),
        vlm_all_time          |-> extract_volume(portfolio, "allTime"),
        max_drawdown_day      |-> calculate_max_drawdown(portfolio, "day"),
        max_drawdown_week     |-> calculate_max_drawdown(portfolio, "week"),
        max_drawdown_month    |-> calculate_max_drawdown(portfolio, "month"),
        max_drawdown_all_time |-> calculate_max_drawdown(portfolio, "allTime"),
        created_at            |-> Some(now),
        updated_at            |-> Some(now) ]

\* the payloads build_metric_rows_from_details keeps: not empty, no "error"
KeptDetail(entry) == entry[2] # <<>> /\ ~TruthyStr(Get(entry[2], "error"))

\* build_metric_rows_from_details on the items of the details dict, a list
\* of <<address, payload>> in insertion order
build_metric_rows_from_details(details, now) ==
  LET kept == SelectSeq(details, KeptDetail)
  IN  [i \in DOMAIN kept |-> VaultMetricRow(kept[i][1], kept[i][2], now)]

\* conflict target and SET list of the vault_metrics upsert
VaultMetricKey == {"timestampz", "vault_address"}

\* the SET list without the apr column
VaultMetricSetNoApr ==
  {"max_distributable_tvl", "leader_commission", "follower_count",
   "pnl_day", "pnl_week", "pnl_month", "pnl_all_time",
   "vlm_day", "vlm_week", "vlm_month", "vlm_all_time",
   "max_drawdown_day", "max_drawdown_week", "max_drawdown_month", "max_drawdown_all_time",
   "updated_at"}

VaultMetricSet ==
  {"apr", "max_distributable_tvl", "leader_commission", "follower_count",
   "pnl_day", "pnl_week", "pnl_month", "pnl_all_time",
   "vlm_day", "vlm_week", "vlm_month", "vlm_all_time",
   "max_drawdown_day", "max_drawdown_week", "max_drawdown_month", "max_drawdown_all_time",
   "updated_at"}

\* a full vaultDetails payload, a later one of the same instant that lacks
\* most fields, one without any history, and an error entry
FullDetail ==
  [ apr |-> Some(12), maxDistributable |-> Some(500), leaderCommission |-> Some(10),
    followers |-> Some(<<"0xf1", "0xf2">>),
    portfolio |-> Some(<< <<"day", [ pnlHistory |-> Some(<< <<1699000, 3>>, <<1700000, 5>> >>),
                                     accountValueHistory |->
                                       Some(<< <<1699000, 100>>, <<1700000, 80>> >>),
                                     vlm |-> Some(40) ]>> >>) ]

SparseDetail ==
  [ portfolio |-> Some(<< <<"day", [pnlHistory |-> Some(<< <<1700000, 7>> >>)]>> >>) ]

BareDetail == [portfolio |-> Some(<<>>), maxDistributable |-> Some(1)]

ErrorDetail == [error |-> Some("rate limited"), status_code |-> Some(429)]

DetailPayloads == {FullDetail, SparseDetail, BareDetail, ErrorDetail}

VaultAddresses == {"0xa1", "0xa2"}

\* the details dicts over at most n addresses
DetailsDicts(n) ==
  {d \in SeqUpTo(VaultAddresses \X DetailPayloads, n) :
     \A i, j \in DOMAIN d : i # j => d[i][1] # d[j][1]}

(***************************************************************************)
(* upsert_vault_metrics_flow and its two upserts (upsert_vaults.py)        *)
(***************************************************************************)
NoVaultTx == [table |-> {}, base |-> {}]

NoVaultRun ==
  [kind |-> "none", outcome |-> "none", at |-> "none", vaults_json |-> <<>>,
   addrs |-> <<>>, ret |-> 0]

VInit ==
  /\ vaults = {}
  /\ vault_metrics = {}
  /\ vpc = "idle"
  /\ vrows = <<>>
  /\ vi = 0
  /\ vtx = NoVaultTx
  /\ vsnap = [vaults |-> {}, metrics |-> {}]
  /\ vrun = NoVaultRun

\* HyperliquidClient.fetch_all_stats: raise_for_status or a non-list body
\* raises, else the list
StatsOutcomes == {Raise} \cup {Return(l) : l \in SeqUpTo(StatsItems, MaxVaults)}

\* an exception leaves the open transaction (rollback) and then the run
VaultRaise(at) ==
  /\ vpc' = "idle"
  /\ vtx' = NoVaultTx
  /\ vi' = 0
  /\ vrun' = [vrun EXCEPT !.outcome = "raised", !.at = at]
  /\ IF at = "metric_upsert"
     THEN vault_metrics' = RolledBack(vtx.base, vtx.table) /\ UNCHANGED vaults
     ELSE vaults' = RolledBack(vtx.base, vtx.table) /\ UNCHANGED vault_metrics
  /\ UNCHANGED <<clock, vrows, vsnap, evars, xvars>>

\* lines 398-414: the flow starts, fetches the stats list, builds the vault
\* rows and enters upsert_vault_rows, which opens its own transaction
VaultFlowStart ==
  /\ epc = "idle"
  /\ vpc = "idle"
  /\ clock <= MaxVaultClock
  /\ vsnap' = [vaults |-> vaults, metrics |-> vault_metrics]
  /\ \E stats \in StatsOutcomes :
       IF stats.raised
       THEN /\ vrun' = [NoVaultRun EXCEPT !.kind = "flow", !.outcome = "raised",
                                          !.at = "stats"]
            /\ UNCHANGED <<clock, vpc, vrows, vi, vtx>>
       ELSE LET rows == build_vault_rows(stats.list, NowAt(clock))
            IN  /\ vrun' = [NoVaultRun EXCEPT !.kind = "flow", !.outcome = "running",
                                              !.vaults_json = stats.list]
                /\ clock' = clock + 1
                /\ vrows' = rows
                /\ vi' = 0
                /\ vtx' = [table |-> vaults, base |-> vaults]
                /\ vpc' = IF rows = <<>> THEN "vault_commit" ELSE "vault_rows"
  /\ UNCHANGED <<vaults, vault_metrics, evars, xvars>>

\* upsert_vault_rows, lines 66-85: one batch
ExecVaultBatch ==
  /\ vpc = "vault_rows"
  /\ LET chunk == Chunk(vrows, vi)
     IN  \E fault \in BOOLEAN :
           IF fault \/ CardinalityViolation(chunk, VaultKey) THEN VaultRaise("vault_upsert")
           ELSE /\ vtx' = [vtx EXCEPT !.table =
                             OnConflictDoUpdate(vtx.table, chunk, VaultKey, VaultSet)]
                /\ vaults' = VisibleInTx(vaults, vtx'.table)
                /\ IF vi + BATCH < Len(vrows)
                   THEN vi' = vi + BATCH /\ vpc' = "vault_rows"
                   ELSE vi' = 0 /\ vpc' = "vault_commit"
                /\ UNCHANGED <<clock, vault_metrics, vrows, vsnap, vrun, evars, xvars>>

\* upsert_vault_rows leaves its transaction: commit, then lines 87-88
CommitVaultRows ==
  /\ vpc = "vault_commit"
  /\ \E fault \in BOOLEAN :
       IF fault THEN VaultRaise("vault_upsert")
       ELSE /\ vaults' = vtx.table
            /\ vtx' = NoVaultTx
            /\ vpc' = "details"
            /\ UNCHANGED <<clock, vault_metrics, vrows, vi, vsnap, vrun, evars, xvars>>

\* the parameters of HyperliquidClient.fetch_vault_details_batch, and the
\* keywords the flow passes to it besides the positional address list
DetailsBatchParams == {"addresses", "concurrency", "timeout", "max_retries"}

DetailsCallKeywords == {"concurrency", "requests_per_second"}

\* a callee that takes any keyword
KeywordsIgnored == TRUE

\* Python binds a call only if every keyword names a parameter; a keyword
\* that names none raises TypeError before the body runs
KeywordsBind == DetailsCallKeywords \subseteq DetailsBatchParams

\* what fetch_vault_details_batch returns for addrs: one entry per address
DetailsResults(addrs) ==
  {d \in [DOMAIN addrs -> VaultAddresses \X DetailPayloads] :
     \A i \in DOMAIN addrs : d[i][1] = addrs[i]}

\* upsert_metric_rows, lines 322-333: return 0 on no rows, else open the
\* session and the transaction
BeginMetricUpsert(rows) ==
  /\ vrows' = rows
  /\ vi' = 0
  /\ IF rows = <<>>
     THEN /\ vpc' = "idle"
          /\ vtx' = NoVaultTx
     ELSE /\ vpc' = "metric_rows"
          /\ vtx' = [table |-> vault_metrics, base |-> vault_metrics]

\* lines 416-462: choose the addresses, call fetch_vault_details_batch,
\* build the metric rows and enter upsert_metric_rows
FetchDetails ==
  /\ vpc = "details"
  /\ \E addresses \in {None, Some(<<"0xa2">>)}, active_only \in BOOLEAN :
       LET addrs == IF addresses # None /\ addresses[1] # <<>> THEN addresses[1]
                    ELSE extract_addresses_from_vaults_json(vrun.vaults_json, active_only)
       IN  IF ~KeywordsBind
           THEN /\ vpc' = "idle"
                /\ vrun' = [vrun EXCEPT !.outcome = "raised", !.at = "details",
                                        !.addrs = addrs]
                /\ UNCHANGED <<clock, vrows, vi, vtx>>
           ELSE \E details \in DetailsResults(addrs) :
                  LET rows == build_metric_rows_from_details(details, NowAt(clock))
                  IN  /\ clock' = clock + 1
                      /\ BeginMetricUpsert(rows)
                      /\ vrun' = [vrun EXCEPT !.addrs = addrs,
                                    !.outcome = IF rows = <<>> THEN "returned" ELSE @]
  /\ UNCHANGED <<vaults, vault_metrics, vsnap, evars, xvars>>

\* the task upsert_metric_rows run on its own, on the rows
\* build_metric_rows_from_details gives for a details dict
UpsertMetricRowsCall ==
  /\ epc = "idle"
  /\ vpc = "idle"
  /\ clock <= MaxVaultClock
  /\ \E details \in DetailsDicts(MaxVaults) :
       LET rows == build_metric_rows_from_details(details, NowAt(clock))
       IN  /\ BeginMetricUpsert(rows)
           /\ vrun' = [NoVaultRun EXCEPT !.kind = "task",
                         !.outcome = IF rows = <<>> THEN "returned" ELSE "running"]
  /\ clock' = clock + 1
  /\ vsnap' = [vaults |-> vaults, metrics |-> vault_metrics]
  /\ UNCHANGED <<vaults, vault_metrics, evars, xvars>>

\* upsert_metric_rows, lines 334-366: one batch
ExecVaultMetricBatch ==
  /\ vpc = "metric_rows"
  /\ LET chunk == Chunk(vrows, vi)
         parents == {e.vault_address : e \in vaults}
     IN  \E fault \in BOOLEAN :
           IF \/ fault
              \/ CardinalityViolation(chunk, VaultMetricKey)
              \/ FkViolation(chunk, "vault_address", parents)
           THEN VaultRaise("metric_upsert")
           ELSE /\ vtx' = [vtx EXCEPT !.table =
                             OnConflictDoUpdate(vtx.table, chunk, VaultMetricKey,
                                                VaultMetricSet)]
                /\ vault_metrics' = VisibleInTx(vault_metrics, vtx'.table)
                /\ IF vi + BATCH < Len(vrows)
                   THEN vi' = vi + BATCH /\ vpc' = "metric_rows"
                   ELSE vi' = 0 /\ vpc' = "metric_commit"
                /\ UNCHANGED <<clock, vaults, vrows, vsnap, vrun, evars, xvars>>

\* upsert_metric_rows leaves its transaction: commit, then lines 368-369
CommitMetricRows ==
  /\ vpc = "metric_commit"
  /\ \E fault \in BOOLEAN :
       IF fault THEN VaultRaise("metric_upsert")
       ELSE /\ vault_metrics' = vtx.table
            /\ vtx' = NoVaultTx
            /\ vpc' = "idle"
            /\ vrun' = [vrun EXCEPT !.outcome = "returned", !.ret = Len(vrows)]
            /\ UNCHANGED <<clock, vaults, vrows, vi, vsnap, evars, xvars>>

(***************************************************************************)
(* The on-chain adapters call by call (felix_client.py, hyperbeat_client.py *)
(* hypurrfi_client.py).  fetch_pools makes its contract calls through      *)
(* _call_with_retry; how the node answers the successive invocations of    *)
(* one call is drawn when the call starts: `fails` rate-limit answers in a *)
(* row, then a value ("ok") or another error (a timeout, a revert).        *)
(*                                                                         *)
(* Numbers.  A Decimal / float is a record [m, e] standing for m * 10^e,   *)
(* with zero normalised to [0, 0]: dividing by 10**d lowers the exponent   *)
(* by d, so the 10**18 of the source needs no large integer.               *)
(***************************************************************************)
\* max_retries=5 of _call_with_retry
CallRetries == 5
\* most rate-limit answers in a row to one call
MaxRateFails == 5
\* most calls of one fetch_pools run that end in an exception
MaxCallFaults == 2
\* longest reserves list the HypurrFi pool returns
MaxReserves == 2

Dec(m, e) == IF m = 0 THEN [m |-> 0, e |-> 0] ELSE [m |-> m, e |-> e]

\* Decimal(raw) / Decimal(10**d)
DecScale(raw, d) == Dec(raw, 0 - d)

\* a * b
DecMul(a, b) == Dec(a.m * b.m, a.e + b.e)

\* (a / b) * 100 for b > 0, the quotient cut to a whole mantissa
DecPct(a, b) == Dec((a.m * 100) \div b.m, a.e - b.e)

\* what the node finally answers: a value, or an error that is no rate limit
FinalAnswers == {"ok", "timeout", "revert"}

RpcScripts == [fails : 0..MaxRateFails, then : FinalAnswers]

\* str(e).lower() of the exception an answer raises, word by word
error_text(answer) ==
  CASE answer = "rate_limited" -> <<"-32005", "request", "rate", "limited">>
    [] answer = "timeout"      -> <<"read", "timed", "out">>
    [] answer = "revert"       -> <<"execution", "reverted">>
    [] OTHER                   -> <<>>

\* the answer to the next invocation of a call
answer_of(c) == IF c.invoked < c.script.fails THEN "rate_limited" ELSE c.script.then

\* a test that takes every error of the transport for a transient one
is_transient_error(text) ==
  \/ Contains(text, <<"rate", "limited">>)
  \/ Contains(text, <<"-32005">>)
  \/ Contains(text, <<"timed", "out">>)

\* "rate limited" in str(e).lower() or "-32005" in str(e).lower()
is_rate_limit_error(text) ==
  Contains(text, <<"rate", "limited">>) \/ Contains(text, <<"-32005">>)

\* the answers a call may face once `faults` calls of the run have failed
ScriptsAfter(faults) ==
  {s \in RpcScripts : faults < MaxCallFaults \/ (s.then = "ok" /\ s.fails < CallRetries)}

NoRpcCall == [script |-> [fails |-> 0, then |-> "ok"], invoked |-> 0, slept |-> 0]

\* a loop that gives up on the first rate-limit answer
call_once_step(c) ==
  IF c.invoked < c.script.fails THEN "exhausted"
  ELSE IF c.script.then = "ok" THEN "value" ELSE "error"

\* _call_with_retry: one pass of `for attempt in range(max_retries)`, attempt
\* being c.invoked.  A rate-limit answer sleeps and goes round again; after
\* the sleep of the last pass the loop ends and "Failed after max retries"
\* is raised; any other error is re-raised at once.
call_with_retry_step(c) ==
  LET answer == answer_of(c)
  IN  IF answer = "ok" THEN "value"
      ELSE IF is_rate_limit_error(error_text(answer))
      THEN IF c.invoked + 1 < CallRetries THEN "sleep" ELSE "exhausted"
      ELSE "error"

\* the time.sleep(delay) calls of one pass: the rate-limit branch sleeps on
\* every pass, the last one included, before the loop goes round or ends
sleeps_after(step) == IF step \in {"sleep", "exhausted"} THEN 1 ELSE 0

\* a fetch_pools without the connection test
proceeds_always(connected) == TRUE

\* `if not self.w3.is_connected(): return []`
fetch_pools_proceeds(connected) == connected

\* what fetch_pools does after a call: go on at `pos`, or end the item with
\* or without a row (`src` keeps the locals the row was built from)
Goto(pos, item, vals) ==
  [pos |-> pos, item |-> item, vals |-> vals, emit |-> <<>>, src |-> <<>>]

\* the exception leaves fetch_pools
Escape(item, vals) == Goto("raised", item, vals)

\* CDP_MARKETS and LENDING_VAULTS of FelixClient, VAULTS of HyperbeatClient,
\* cut down to one and two entries
FelixMarkets == <<[kind |-> "cdp", key |-> "WHYPE", addr |-> "0xcdp1"],
                  [kind |-> "lending", key |-> "USDC Vault", addr |-> "0xlv1"]>>

HyperbeatVaults == <<[key |-> "hb one", addr |-> "0xhb1"], [key |-> "hb two", addr |-> "0xhb2"]>>

\* the locals that outlive an item, and the number of items of the loop
AcrossItems(adapter, vals) ==
  IF adapter = "hypurrfi" THEN [reserves_list |-> vals["reserves_list"]] ELSE <<>>

NumItems(adapter, vals) ==
  CASE adapter = "felix" -> Len(FelixMarkets)
    [] adapter = "hyperbeat" -> Len(HyperbeatVaults)
    [] adapter = "hypurrfi" -> Len(vals["reserves_list"])

\* the first call of item n
FirstSite(adapter, n) ==
  CASE adapter = "felix" -> IF FelixMarkets[n].kind = "cdp" THEN "cdp.symbol" ELSE "v.symbol"
    [] adapter = "hyperbeat" -> "symbol"
    [] adapter = "hypurrfi" -> "getReserveData"

\* the loop goes to the next item, or fetch_pools returns `results`
ItemEnd(adapter, item, vals, emit) ==
  [pos |-> IF item + 1 <= NumItems(adapter, vals) THEN FirstSite(adapter, item + 1)
           ELSE "returned",
   item |-> item + 1, vals |-> AcrossItems(adapter, vals), emit |-> emit, src |-> vals]

\* an item loop without the try: the exception of an item ends fetch_pools
abort_on_item_error(adapter, item, vals) == Escape(item, vals)

\* `except Exception as e: logger.error(...)` around the item
Drop(adapter, item, vals) == ItemEnd(adapter, item, vals, <<>>)

\* results.append(data_row)
Emit(adapter, item, vals, row) == ItemEnd(adapter, item, vals, <<row>>)

Zero == Dec(0, 0)

\* what the node returns to a call that succeeds
SiteValues(adapter, pos) ==
  CASE pos \in {"symbol", "u_symbol", "v.u_symbol"} -> {"USDC"}
    [] pos \in {"cdp.symbol", "v.symbol"} -> {"ETH"}
    [] pos = "name" -> {"Vault"}
    [] pos \in {"asset", "v.asset"} -> {"0xunder"}
    [] pos \in {"decimals", "v.u_decimals"} -> {6}
    [] pos \in {"cdp.decimals", "v.decimals"} -> {18}
    [] pos \in {"totalAssets", "totalSupply", "cdp.balanceOf", "v.totalAssets",
                "h.totalSupply"} -> {0, 4}
    [] pos \in {"v.totalSupply", "debt.totalSupply"} -> {2}
    [] pos \in {"getAssetPrice", "v.getAssetPrice", "cdp.fetchPrice",
                "cdp.lastGoodPrice"} -> {3}
    [] pos \in {"cdp.getFeUSDDebt", "cdp.getSystemDebt"} -> {2}
    [] pos = "getPool" -> {"0xpool"}
    [] pos = "getPriceOracle" -> {"0xoracle"}
    [] pos = "getReservesList" -> {SubSeq(<<"0xr1", "0xr2", "0xr3">>, 1, n) : n \in 0..MaxReserves}
    [] pos = "getReserveData" ->
         {[ltv |-> 7500, liq_threshold |-> 8000, liq_bonus |-> 10500, decimals |-> 6,
           liquidity_rate |-> r, variable_borrow_rate |-> 7, stable_borrow_rate |-> 0,
           h_token |-> "0xh", debt_token |-> "0xd"] : r \in {0, 5}}

(***************************************************************************)
(* HyperbeatClient.fetch_pools, lines 89-178: every call has its own try   *)
(***************************************************************************)
HyperbeatRow(item, v) ==
  [ source |-> Some("hyperbeat"), protocol |-> Some(ProtocolName("hyperbeat")),
    pool_id |-> Some(HyperbeatVaults[item].addr),
    symbol |-> Some(v["symbol"]), name |-> Some(v["name"]),
    contract_address |-> Some(HyperbeatVaults[item].addr),
    accepts_usdc |-> Some(AdapterUsdcFlag(v["symbol"])),
    tvl_usd |-> Some(DecMul(DecScale(v["raw_balance"], v["decimals"]), v["price_usd"])),
    total_debt_usd |-> Some(Zero), utilization_rate |-> Some(Zero),
    apy_base |-> Some(Zero), apy_reward |-> Some(Zero), apy_total |-> Some(Zero),
    apy_borrow_variable |-> Some(Zero), apy_borrow_stable |-> Some(Zero),
    ltv |-> Some(Zero), liquidation_threshold |-> Some(Zero),
    liquidation_bonus |-> Some(Zero), decimals |-> Some(Dec(v["decimals"], 0)),
    reserve_factor |-> Some(Zero) ]

HyperbeatAfter(pos, item, vals, ok, v) ==
  CASE pos = "symbol" ->
         Goto("name", item, DictSet(vals, "symbol", IF ok THEN v ELSE "UNKNOWN"))
    [] pos = "name" ->
         Goto("asset", item, DictSet(vals, "name", IF ok THEN v ELSE HyperbeatVaults[item].key))
    [] pos = "asset" ->
         Goto("decimals", item,
              DictSet(vals, "asset_addr", IF ok THEN v ELSE HyperbeatVaults[item].addr))
    [] pos = "decimals" ->
         Goto("totalAssets", item, DictSet(vals, "decimals", IF ok THEN v ELSE 18))
    [] pos = "totalAssets" ->
         IF ok THEN Goto("getAssetPrice", item, DictSet(vals, "raw_balance", v))
         ELSE Goto("totalSupply", item, vals)
    [] pos = "totalSupply" ->
         Goto("getAssetPrice", item, DictSet(vals, "raw_balance", IF ok THEN v ELSE 0))
    [] pos = "getAssetPrice" ->
         LET done == DictSet(vals, "price_usd", IF ok THEN DecScale(v, 8) ELSE Zero)
         IN  Emit("hyperbeat", item, done, HyperbeatRow(item, done))

(***************************************************************************)
(* FelixClient.fetch_pools, lines 119-248                                  *)
(***************************************************************************)
FelixCdpRow(item, v) ==
  LET price_usd == DecScale(v["raw_price"], 18)
      tvl_usd   == DecMul(DecScale(v["raw_collateral_balance"], v["decimals"]), price_usd)
      debt_usd  == DecScale(v["raw_debt"], 18)
      utilization == IF tvl_usd.m > 0 THEN DecPct(debt_usd, tvl_usd) ELSE Zero
  IN  [ source |-> Some("felix"), protocol |-> Some(ProtocolName("felix")),
        pool_id |-> Some(FelixMarkets[item].addr),
        symbol |-> Some(v["symbol"]), name |-> Some("Felix CDP"),
        contract_address |-> Some("0xactive"), market_type |-> Some("CDP"),
        accepts_usdc |-> Some(AdapterUsdcFlag(v["symbol"])),
        tvl_usd |-> Some(tvl_usd), total_debt_usd |-> Some(debt_usd),
        utilization_rate |-> Some(utilization),
        apy_base |-> Some(Zero), apy_reward |-> Some(Zero), apy_total |-> Some(Zero),
        apy_borrow_variable |-> Some(Zero), apy_borrow_stable |-> Some(Zero),
        ltv |-> Some(Dec(9090, -2)), liquidation_threshold |-> Some(Dec(110, 0)),
        liquidation_bonus |-> Some(Zero), decimals |-> Some(Dec(v["decimals"], 0)),
        reserve_factor |-> Some(Zero) ]

FelixLendingRow(item, v) ==
  LET tvl_usd == DecMul(DecScale(v["raw_balance"], v["underlying_decimals"]), v["price_usd"])
  IN  [ source |-> Some("felix"), protocol |-> Some(ProtocolName("felix")),
        pool_id |-> Some(FelixMarkets[item].addr),
        symbol |-> Some(v["symbol"]), name |-> Some(FelixMarkets[item].key),
        contract_address |-> Some(FelixMarkets[item].addr), market_type |-> Some("Lending"),
        accepts_usdc |-> Some(AdapterUsdcFlag(v["underlying_symbol"])),
        tvl_usd |-> Some(tvl_usd), total_debt_usd |-> Some(Zero),
        utilization_rate |-> Some(Zero),
        apy_base |-> Some(Zero), apy_reward |-> Some(Zero), apy_total |-> Some(Zero),
        apy_borrow_variable |-> Some(Zero), apy_borrow_stable |-> Some(Zero),
        ltv |-> Some(Zero), liquidation_threshold |-> Some(Zero),
        liquidation_bonus |-> Some(Zero), decimals |-> Some(Dec(v["underlying_decimals"], 0)),
        reserve_factor |-> Some(Zero) ]

FelixAfter(pos, item, vals, ok, v) ==
  CASE pos = "cdp.symbol" ->
         IF ok THEN Goto("cdp.decimals", item, DictSet(vals, "symbol", v))
         ELSE Drop("felix", item, vals)
    [] pos = "cdp.decimals" ->
         IF ok THEN Goto("cdp.balanceOf", item, DictSet(vals, "decimals", v))
         ELSE Drop("felix", item, vals)
    [] pos = "cdp.balanceOf" ->
         IF ok THEN Goto("cdp.fetchPrice", item, DictSet(vals, "raw_collateral_balance", v))
         ELSE Drop("felix", item, vals)
    [] pos = "cdp.fetchPrice" ->
         IF ok THEN Goto("cdp.getFeUSDDebt", item, DictSet(vals, "raw_price", v))
         ELSE Goto("cdp.lastGoodPrice", item, vals)
    [] pos = "cdp.lastGoodPrice" ->
         IF ok THEN Goto("cdp.getFeUSDDebt", item, DictSet(vals, "raw_price", v))
         ELSE Drop("felix", item, vals)
    [] pos = "cdp.getFeUSDDebt" ->
         IF ok THEN LET done == DictSet(vals, "raw_debt", v)
                    IN  Emit("felix", item, done, FelixCdpRow(item, done))
         ELSE Goto("cdp.getSystemDebt", item, vals)
    [] pos = "cdp.getSystemDebt" ->
         LET done == DictSet(vals, "raw_debt", IF ok THEN v ELSE 0)
         IN  Emit("felix", item, done, FelixCdpRow(item, done))
    [] pos = "v.symbol" ->
         IF ok THEN Goto("v.asset", item, DictSet(vals, "symbol", v))
         ELSE Drop("felix", item, vals)
    [] pos = "v.asset" ->
         IF ok THEN Goto("v.u_decimals", item, DictSet(vals, "underlying_addr", v))
         ELSE Goto("v.decimals", item, vals)
    [] pos = "v.u_decimals" ->
         IF ok THEN Goto("v.u_symbol", item, DictSet(vals, "underlying_decimals", v))
         ELSE Goto("v.decimals", item, vals)
    [] pos = "v.u_symbol" ->
         IF ok THEN Goto("v.totalAssets", item, DictSet(vals, "underlying_symbol", v))
         ELSE Goto("v.decimals", item, vals)
    [] pos = "v.decimals" ->
         IF ok
         THEN Goto("v.totalAssets", item,
                   DictSet(DictSet(DictSet(vals, "underlying_addr", FelixMarkets[item].addr),
                                   "underlying_decimals", v),
                           "underlying_symbol", vals["symbol"]))
         ELSE Drop("felix", item, vals)
    [] pos = "v.totalAssets" ->
         IF ok THEN Goto("v.getAssetPrice", item, DictSet(vals, "raw_balance", v))
         ELSE Goto("v.totalSupply", item, vals)
    [] pos = "v.totalSupply" ->
         IF ok THEN Goto("v.getAssetPrice", item, DictSet(vals, "raw_balance", v))
         ELSE Drop("felix", item, vals)
    [] pos = "v.getAssetPrice" ->
         LET done == DictSet(vals, "price_usd", IF ok THEN DecScale(v, 8) ELSE Zero)
         IN  Emit("felix", item, done, FelixLendingRow(item, done))

(***************************************************************************)
(* HypurrFiClient.fetch_pools, lines 109-208: the three set-up calls are   *)
(* outside every try, the calls of an item share one try                   *)
(***************************************************************************)
\* the annual yield in percent of a per-second compounded ray rate; zero
\* exactly for a zero rate, taken to first order otherwise
ApyPct(rate_ray) == Dec(rate_ray, -25)

HypurrFiRow(item, v) ==
  LET rd == v["reserve_data"]
      decimals == rd.decimals
      price_usd == DecScale(v["price_raw"], 8)
      tvl_usd == DecMul(DecScale(v["total_supply_raw"], decimals), price_usd)
      total_debt_usd == DecMul(DecScale(v["total_debt_raw"], decimals), price_usd)
      utilization == IF v["total_supply_raw"] > 0
                     THEN DecPct(Dec(v["total_debt_raw"], 0), Dec(v["total_supply_raw"], 0))
                     ELSE Zero
  IN  [ source |-> Some("hypurrfi"), protocol |-> Some(ProtocolName("hypurrfi")),
        pool_id |-> Some(v["reserves_list"][item]),
        symbol |-> Some(v["symbol"]), name |-> Some(v["name"]),
        contract_address |-> Some(rd.h_token),
        accepts_usdc |-> Some(AdapterUsdcFlag(v["symbol"])),
        tvl_usd |-> Some(tvl_usd), total_debt_usd |-> Some(total_debt_usd),
        utilization_rate |-> Some(utilization),
        apy_base |-> Some(ApyPct(rd.liquidity_rate)), apy_reward |-> Some(Zero),
        apy_total |-> Some(ApyPct(rd.liquidity_rate)),
        apy_borrow_variable |-> Some(ApyPct(rd.variable_borrow_rate)),
        apy_borrow_stable |-> Some(ApyPct(rd.stable_borrow_rate)),
        ltv |-> Some(Dec(rd.ltv, -2)), liquidation_threshold |-> Some(Dec(rd.liq_threshold, -2)),
        liquidation_bonus |-> Some(Dec(rd.liq_bonus, -2)),
        decimals |-> Some(Dec(decimals, 0)), reserve_factor |-> Some(Zero) ]

HypurrFiAfter(pos, item, vals, ok, v) ==
  CASE pos = "getPool" ->
         IF ok THEN Goto("getPriceOracle", item, vals) ELSE Escape(item, vals)
    [] pos = "getPriceOracle" ->
         IF ok THEN Goto("getReservesList", item, vals) ELSE Escape(item, vals)
    [] pos = "getReservesList" ->
         IF ok THEN ItemEnd("hypurrfi", 0, [reserves_list |-> v], <<>>)
         ELSE Escape(item, vals)
    [] pos = "getReserveData" ->
         IF ok THEN Goto("symbol", item, DictSet(vals, "reserve_data", v))
         ELSE Drop("hypurrfi", item, vals)
    [] pos = "symbol" ->
         IF ok THEN Goto("name", item, DictSet(vals, "symbol", v))
         ELSE Drop("hypurrfi", item, vals)
    [] pos = "name" ->
         IF ok THEN Goto("h.totalSupply", item, DictSet(vals, "name", v))
         ELSE Drop("hypurrfi", item, vals)
    [] pos = "h.totalSupply" ->
         IF ok THEN Goto("debt.totalSupply", item, DictSet(vals, "total_supply_raw", v))
         ELSE Drop("hypurrfi", item, vals)
    [] pos = "debt.totalSupply" ->
         IF ok THEN Goto("getAssetPrice", item, DictSet(vals, "total_debt_raw", v))
         ELSE Drop("hypurrfi", item, vals)
    [] pos = "getAssetPrice" ->
         IF ok THEN LET done == DictSet(vals, "price_raw", v)
                    IN  Emit("hypurrfi", item, done, HypurrFiRow(item, done))
         ELSE Drop("hypurrfi", item, vals)

AfterCall(adapter, pos, item, vals, ok, v) ==
  CASE adapter = "felix" -> FelixAfter(pos, item, vals, ok, v)
    [] adapter = "hyperbeat" -> HyperbeatAfter(pos, item, vals, ok, v)
    [] adapter = "hypurrfi" -> HypurrFiAfter(pos, item, vals, ok, v)

(***************************************************************************)
(* A run of fetch_pools                                                    *)
(***************************************************************************)
NoLastCall == [site |-> "none", script |-> NoRpcCall.script, invoked |-> 0, slept |-> 0,
               outcome |-> "none", value |-> None]

\* `connected` is what is_connected() answered, `called` whether a contract
\* call was invoked, `faults` how many calls ended in an exception,
\* `exhausted` the <<item, site>> pairs whose retries ran out, `faulty` the
\* items (0 for the set-up) in which a call ended in an exception, `failed` the
\* sites of the current item whose call ended in an exception, `prov` for
\* every appended row its item, those sites and the locals it was built from, `last`
\* the _call_with_retry call that ended last
NoAdapterRun ==
  [connected |-> TRUE, called |-> FALSE, faults |-> 0, exhausted |-> {}, faulty |-> {},
   failed |-> {}, prov |-> <<>>, last |-> NoLastCall]

AInit ==
  /\ aname = "none"
  /\ apos = "idle"
  /\ aitem = 0
  /\ acall = NoRpcCall
  /\ avals = <<>>
  /\ aresults = <<>>
  /\ ahist = NoAdapterRun

\* fetch_pools up to its first contract call: the connection test, then (for
\* Felix and HypurrFi) the block_number read of the log line, which is an
\* RPC request outside every try
StartFetch(adapter, reads_block, first_pos, first_item) ==
  /\ aname = "none"
  /\ aname' = adapter
  /\ avals' = <<>>
  /\ aresults' = <<>>
  /\ \E connected \in BOOLEAN, block_ok \in BOOLEAN :
       /\ ahist' = [NoAdapterRun EXCEPT !.connected = connected]
       /\ IF ~fetch_pools_proceeds(connected)
          THEN apos' = "returned" /\ aitem' = 0 /\ acall' = NoRpcCall
          ELSE IF reads_block /\ ~block_ok
          THEN apos' = "raised" /\ aitem' = 0 /\ acall' = NoRpcCall
          ELSE /\ apos' = first_pos
               /\ aitem' = first_item
               /\ \E s \in ScriptsAfter(0) : acall' = [script |-> s, invoked |-> 0, slept |-> 0]
  /\ UNCHANGED <<clock, evars, vvars, tvars, bvars>>

FelixFetchPools == StartFetch("felix", TRUE, FirstSite("felix", 1), 1)

HyperbeatFetchPools == StartFetch("hyperbeat", FALSE, FirstSite("hyperbeat", 1), 1)

HypurrFiFetchPools == StartFetch("hypurrfi", TRUE, "getPool", 0)

\* one invocation of contract_func.call() inside _call_with_retry and, when
\* the call ends with it, what fetch_pools does with the value or exception
ContractCall ==
  /\ aname # "none"
  /\ apos \notin {"idle", "returned", "raised"}
  /\ LET step == call_with_retry_step(acall)
     IN  IF step = "sleep"
         THEN /\ acall' = [acall EXCEPT !.invoked = @ + 1, !.slept = @ + sleeps_after(step)]
              /\ ahist' = [ahist EXCEPT !.called = TRUE]
              /\ UNCHANGED <<aname, apos, aitem, avals, aresults>>
         ELSE \E v \in (IF step = "value" THEN SiteValues(aname, apos) ELSE {"none"}) :
                LET nx == AfterCall(aname, apos, aitem, avals, step = "value", v)
                    faults == ahist.faults + (IF step = "value" THEN 0 ELSE 1)
                    failed == IF step = "value" THEN ahist.failed ELSE ahist.failed \cup {apos}
                IN  /\ apos' = nx.pos
                    /\ aitem' = nx.item
                    /\ avals' = nx.vals
                    /\ aresults' = aresults \o nx.emit
                    /\ ahist' =
                         [ahist EXCEPT
                            !.called = TRUE,
                            !.faults = faults,
                            !.exhausted = IF step = "exhausted" THEN @ \cup {<<aitem, apos>>}
                                          ELSE @,
                            !.faulty = IF step = "value" THEN @ ELSE @ \cup {aitem},
                            !.failed = IF nx.item # aitem THEN {} ELSE failed,
                            !.prov = IF nx.emit # <<>>
                                     THEN Append(@, [item |-> aitem, failed |-> failed,
                                                vals |-> nx.src])
                                     ELSE @,
                            !.last = [site |-> apos, script |-> acall.script,
                                      invoked |-> acall.invoked + 1,
                                      slept |-> acall.slept + sleeps_after(step),
                                      outcome |-> step,
                                      value |-> IF step = "value" THEN Some(v) ELSE None]]
                    /\ UNCHANGED aname
                    /\ IF nx.pos \in {"returned", "raised"} THEN acall' = NoRpcCall
                       ELSE \E s \in ScriptsAfter(faults) :
                              acall' = [script |-> s, invoked |-> 0, slept |-> 0]
  /\ UNCHANGED <<clock, evars, vvars, tvars, bvars>>

AdapterNext == FelixFetchPools \/ HyperbeatFetchPools \/ HypurrFiFetchPools \/ ContractCall

(***************************************************************************)
(* update_top_500 (upsert_vaults.py:466-512): the ranking query, then the  *)
(* DELETE and the INSERT of top_500_vaults inside one session.begin().     *)
(* The metric rows carry the three columns the query reads.  Other         *)
(* sessions commit metric rows and read the ranking while the call runs.   *)
(***************************************************************************)
\* LIMIT of the ranking query; the program uses 500 (upsert_vaults.py:485),
\* scaled down so that a few vaults already exceed it
TopLimit == 2
\* metric rows per vault
MaxSnapshots == 2
\* number of update_top_500 runs
MaxTopRuns == 2
\* SELECTs of the other session
MaxReads == 1
\* metric rows in the table
MaxMetricRows == 3

RankedAddresses == {"0xa1", "0xa2", "0xa3"}

\* the values of the max_distributable_tvl column, NULL among them
TvlValues == {None, Some(1), Some(2)}

\* a vault_metrics row, columns vault_address, time, max_distributable_tvl
MetricSnapshot(addr, t, tvl) ==
  [vault_address |-> Some(addr), timestampz |-> Some(t), max_distributable_tvl |-> tvl]

\* a query that keeps the oldest row of every vault
oldest_per_vault(metrics) ==
  {r \in metrics : \A q \in metrics :
     q.vault_address = r.vault_address => q.timestampz[1] >= r.timestampz[1]}

\* the CTE `latest` filtered by rn = 1: of every vault_address the row with
\* the greatest time (the primary key makes it unique)
latest_per_vault(metrics) ==
  {r \in metrics : \A q \in metrics :
     q.vault_address = r.vault_address => q.timestampz[1] <= r.timestampz[1]}

\* a sorts strictly before b under ORDER BY max_distributable_tvl DESC NULLS LAST
SortsBefore(a, b) ==
  /\ a.max_distributable_tvl # None
  /\ \/ b.max_distributable_tvl = None
     \/ a.max_distributable_tvl[1] > b.max_distributable_tvl[1]

\* the orders the ORDER BY may return the rows of S in: ties in any order
OrderedBy(S) ==
  {p \in [1..Cardinality(S) -> S] :
     /\ \A i, j \in DOMAIN p : i # j => p[i] # p[j]
     /\ \A i, j \in DOMAIN p : i < j => ~SortsBefore(p[j], p[i])}

Min(a, b) == IF a < b THEN a ELSE b

\* lines 471-487 and 491-492: the result sets the query may return, as
\* lists of (vault_address, max_distributable_tvl, time)
ranking_query(metrics) ==
  {SubSeq(p, 1, Min(TopLimit, Len(p))) : p \in OrderedBy(latest_per_vault(metrics))}

\* a DELETE that removes nothing
delete_none(table) == table

\* line 494: DELETE FROM top_500_vaults, no WHERE clause
delete_all(table) == {}

\* lines 496-506: the payload, rank i from enumerate(rows, start=1)
RankingPayload(rows, now) ==
  [i \in DOMAIN rows |->
     [vault_address |-> rows[i].vault_address, rank |-> i,
      tvl_usd |-> rows[i].max_distributable_tvl,
      metrics_time |-> rows[i].timestampz, updated_at |-> Some(now)]]

NoTopRun == [n |-> 0, now |-> 0, old |-> {}, metrics |-> {}, outcome |-> "none",
             ret |-> None, at |-> "idle"]

NoRead == [n |-> 0, rows |-> {}, during |-> "idle", committed |-> {}]

TInit ==
  /\ top_500_vaults = {}
  /\ tpc = "idle"
  /\ trows = <<>>
  /\ ttx = {}
  /\ tseen = NoRead
  /\ trun = NoTopRun

\* another session commits a metric row: a later snapshot of a vault
MetricArrives ==
  /\ \E addr \in RankedAddresses, tvl \in TvlValues :
       LET have == {r \in vault_metrics : r.vault_address = Some(addr)}
       IN  /\ Cardinality(have) < MaxSnapshots
           /\ Cardinality(vault_metrics) < MaxMetricRows
           /\ vault_metrics' = vault_metrics \cup
                {MetricSnapshot(addr, Cardinality(have) + 1, tvl)}
  /\ UNCHANGED <<clock, vaults, vpc, vrows, vi, vtx, vsnap, vrun, evars, avars, tvars, bvars>>

\* lines 469 and 489-492: read the clock, open the session and the
\* transaction, run the ranking query
SelectLatest ==
  /\ tpc = "idle"
  /\ trun.n < MaxTopRuns
  /\ clock' = clock + 1
  /\ \E rows \in ranking_query(vault_metrics) : trows' = rows
  /\ ttx' = top_500_vaults
  /\ tpc' = "selected"
  /\ trun' = [n |-> trun.n + 1, now |-> NowAt(clock), old |-> top_500_vaults,
              metrics |-> vault_metrics, outcome |-> "running", ret |-> None,
              at |-> "selected"]
  /\ UNCHANGED <<top_500_vaults, tseen, evars, vvars, avars, bvars>>

\* line 494
DeleteRanking ==
  /\ tpc = "selected"
  /\ ttx' = delete_all(ttx)
  /\ tpc' = "deleted"
  /\ trun' = [trun EXCEPT !.at = "deleted"]
  /\ UNCHANGED <<clock, top_500_vaults, trows, tseen, evars, vvars, avars, bvars>>

\* lines 496-509: build the payload; `if payload:` one INSERT of all of it
InsertRanking ==
  /\ tpc = "deleted"
  /\ LET payload == RankingPayload(trows, trun.now)
     IN  ttx' = IF payload # <<>> THEN ttx \cup Range(payload) ELSE ttx
  /\ tpc' = "inserted"
  /\ trun' = [trun EXCEPT !.at = "inserted"]
  /\ UNCHANGED <<clock, top_500_vaults, trows, tseen, evars, vvars, avars, bvars>>

\* the session.begin() block ends: COMMIT; lines 511-512 return len(rows)
CommitRanking ==
  /\ tpc = "inserted"
  /\ top_500_vaults' = ttx
  /\ ttx' = {}
  /\ tpc' = "idle"
  /\ trun' = [trun EXCEPT !.outcome = "returned", !.ret = Some(Len(trows)),
                          !.at = "committed"]
  /\ UNCHANGED <<clock, trows, tseen, evars, vvars, avars, bvars>>

\* a statement or the COMMIT fails (connection lost, statement error): the
\* exception leaves the session.begin() block, which rolls back, and then
\* update_top_500
RankingFails ==
  /\ tpc \in {"selected", "deleted", "inserted"}
  /\ top_500_vaults' = RolledBack(top_500_vaults, ttx)
  /\ ttx' = {}
  /\ tpc' = "idle"
  /\ trun' = [trun EXCEPT !.outcome = "raised", !.at = tpc]
  /\ UNCHANGED <<clock, trows, tseen, evars, vvars, avars, bvars>>

\* another session runs SELECT * FROM top_500_vaults
ReadRanking ==
  /\ tseen.n < MaxReads
  /\ tseen' = [n |-> tseen.n + 1,
               rows |-> IF tpc = "idle" THEN top_500_vaults
                        ELSE VisibleInTx(top_500_vaults, ttx),
               during |-> tpc, committed |-> top_500_vaults]
  /\ UNCHANGED <<clock, top_500_vaults, tpc, trows, ttx, trun, evars, vvars, avars, bvars>>

TopNext ==
  \/ MetricArrives
  \/ SelectLatest
  \/ DeleteRanking
  \/ InsertRanking
  \/ CommitRanking
  \/ RankingFails
  \/ ReadRanking

(***************************************************************************)
(* HyperliquidClient.fetch_vault_details_batch (hyperliquid.py:44-93): one *)
(* worker task per element of `addresses`, all writing the shared dict     *)
(* `results`.  The tasks run on one event loop, so a worker runs from one  *)
(* await to the next without interruption: a step is the acquisition of    *)
(* the semaphore, or one POST with everything up to the next await.        *)
(***************************************************************************)
\* max_retries=3 of fetch_vault_details_batch
MaxRetries == 3
\* the `concurrency` argument; the flows pass 20 or less, scaled down so
\* that three workers already wait for each other
Concurrency == 2
\* longest `addresses` list
MaxBatch == 3

BatchAddresses == {"0xa1", "0xa2"}

\* what `await client.post(...)`, raise_for_status() and r.json() may raise
PostExceptions ==
  {[type |-> "HTTPStatusError", status |-> 503], [type |-> "HTTPStatusError", status |-> 404],
   [type |-> "TimeoutException", status |-> 0], [type |-> "JSONDecodeError", status |-> 0]}

\* lines 7-15; a TimeoutException is a TransportError
is_retryable_exception(exc) ==
  CASE exc.type = "TimeoutException" -> TRUE
    [] exc.type = "TransportError" -> TRUE
    [] exc.type = "HTTPStatusError" -> exc.status \in {408, 425, 429, 500, 502, 503, 504}
    [] OTHER -> FALSE

\* r.json() of a vaultDetails answer
DetailsPayload(addr) == [vaultAddress |-> Some(addr), maxDistributable |-> Some(1)]

\* lines 82-88: the record written for an address whose worker gave up
error_record(exc) ==
  IF exc.type = "HTTPStatusError"
  THEN [error |-> Some(exc.type), status_code |-> Some(exc.status)]
  ELSE [error |-> Some(exc.type)]

\* `ok` tells whether a POST of this worker succeeded (history)
NewWorker == [pc |-> "waiting", attempt |-> 0, last_exc |-> None, ok |-> FALSE]

BInit ==
  /\ bpc = "idle"
  /\ baddresses = <<>>
  /\ bworkers = <<>>
  /\ bresults = <<>>

\* lines 55-56 and 90: the call creates the semaphore, the empty dict and
\* one task per element of the list
FetchVaultDetailsBatch ==
  /\ bpc = "idle"
  /\ \E addrs \in SeqUpTo(BatchAddresses, MaxBatch) :
       /\ baddresses' = addrs
       /\ bworkers' = [i \in DOMAIN addrs |-> NewWorker]
  /\ bresults' = <<>>
  /\ bpc' = "running"
  /\ UNCHANGED <<clock, evars, vvars, avars, tvars>>

\* the workers inside `async with sem`: posting, or asleep between two posts
Holders(workers) == {j \in DOMAIN workers : workers[j].pc = "posting"}

\* a semaphore that admits every worker at once
sem_unbounded(workers) == TRUE

\* asyncio.Semaphore(concurrency) of line 55: acquire() goes through while
\* fewer than `concurrency` workers hold it
sem_free(workers) == Cardinality(Holders(workers)) < Concurrency

\* line 61: `async with sem`
WorkerAcquire ==
  /\ bpc = "running"
  /\ \E i \in DOMAIN bworkers :
       /\ bworkers[i].pc = "waiting"
       /\ sem_free(bworkers)
       /\ bworkers' = [bworkers EXCEPT ![i].pc = "posting"]
  /\ UNCHANGED <<clock, bpc, baddresses, bresults, evars, vvars, avars, tvars>>

\* lines 63-88: the POST of pass `attempt` is answered.  A payload is stored
\* and the worker returns; an exception ends the loop on the last pass or
\* when it is not retryable, and then the error record is stored; otherwise
\* the worker sleeps and posts again.
WorkerPost ==
  /\ bpc = "running"
  /\ \E i \in DOMAIN bworkers :
       /\ bworkers[i].pc = "posting"
       /\ \E ok \in BOOLEAN, exc \in PostExceptions :
            LET w == bworkers[i]
                addr == baddresses[i]
            IN  IF ok
                THEN /\ bresults' = DictSet(bresults, addr, DetailsPayload(addr))
                     /\ bworkers' = [bworkers EXCEPT ![i].pc = "done", ![i].ok = TRUE]
                ELSE IF w.attempt >= MaxRetries \/ ~is_retryable_exception(exc)
                THEN /\ bresults' = DictSet(bresults, addr, error_record(exc))
                     /\ bworkers' = [bworkers EXCEPT ![i].pc = "done",
                                                     ![i].last_exc = Some(exc)]
                ELSE /\ bworkers' = [bworkers EXCEPT ![i].attempt = @ + 1,
                                                     ![i].last_exc = Some(exc)]
                     /\ UNCHANGED bresults
  /\ UNCHANGED <<clock, bpc, baddresses, evars, vvars, avars, tvars>>

\* lines 91-93: gather() has all tasks, the client is closed, return results
BatchReturn ==
  /\ bpc = "running"
  /\ \A i \in DOMAIN bworkers : bworkers[i].pc = "done"
  /\ bpc' = "returned"
  /\ UNCHANGED <<clock, baddresses, bworkers, bresults, evars, vvars, avars, tvars>>

BatchNext == FetchVaultDetailsBatch \/ WorkerAcquire \/ WorkerPost \/ BatchReturn

(***************************************************************************)
(* Specifications                                                          *)
(***************************************************************************)
XInit == AInit /\ TInit /\ BInit

Init == EInit /\ VInit /\ XInit

\* direct persist_evm_pools calls
PersistNext == PersistCall \/ ExecEntityBatch \/ ExecMetricBatch \/ CommitPersist

\* runs of sync_evm_pools_flow
FlowNext ==
  FlowStart \/ FetchTask \/ MergeAndPersist \/ ExecEntityBatch \/ ExecMetricBatch
    \/ CommitPersist

\* runs of upsert_vault_metrics_flow and of the metric task
VaultNext ==
  VaultFlowStart \/ ExecVaultBatch \/ CommitVaultRows \/ FetchDetails
    \/ UpsertMetricRowsCall \/ ExecVaultMetricBatch \/ CommitMetricRows

\* The pool schema and the vault schema share no table and no action of one
\* writes a variable of the other, so a behaviour that mixes their calls
\* shows nothing its two projections do not show: the combined relations
\* below let a behaviour work on one schema only.
EvmUntouched == epc = "idle" /\ last.kind = "none" /\ frun.n = 0

VaultUntouched == vrun.kind = "none"

\* runs of the two flows; FetchDetails is where a vault run would enter
\* upsert_metric_rows
FlowsNext ==
  \/ VaultUntouched /\ FlowStart
  \/ FetchTask \/ MergeAndPersist
  \/ ExecEntityBatch \/ ExecMetricBatch \/ CommitPersist
  \/ EvmUntouched /\ VaultFlowStart
  \/ ExecVaultBatch \/ CommitVaultRows \/ FetchDetails

\* the upserts of both schemas
UpsertsNext ==
  \/ VaultUntouched /\ PersistCall
  \/ ExecEntityBatch \/ ExecMetricBatch \/ CommitPersist
  \/ EvmUntouched /\ VaultFlowStart
  \/ ExecVaultBatch \/ CommitVaultRows \/ FetchDetails
  \/ EvmUntouched /\ UpsertMetricRowsCall
  \/ ExecVaultMetricBatch \/ CommitMetricRows

SpecPersist == Init /\ [][PersistNext]_vars

SpecFlow == Init /\ [][FlowNext]_vars

SpecVault == Init /\ [][VaultNext]_vars

SpecFlows == Init /\ [][FlowsNext]_vars

SpecUpserts == Init /\ [][UpsertsNext]_vars

\* The two row builders as functions of their input list: the list is
\* drawn at the start, which also covers the items a caller would not pass
\* through flag_usdc_pools (a non-dict item, an empty identifier, an
\* identifier under pool_id only).
BuildItems ==
  {DlPool("p1", 1), DlPool("p1", 2), AdapterPool("p2", "felix", "ETH", "ETH"), NoIdPool, NonDict,
   [pool |-> Some(""), symbol |-> Some("USDC")],
   [pool |-> None, pool_id |-> Some("p3"), timestamp |-> Some(0)],
   [pool |-> Some("p4"), timestamp |-> Some(900000)],
   [pool |-> Some("p5"), timestamp |-> Some(2000000000)]}

BuildInit ==
  /\ pools \in SeqUpTo(BuildItems, MaxPools)
  /\ clock = 1
  /\ evm_pools = {}
  /\ evm_pool_metrics = {}
  /\ epc = "idle"
  /\ pool_rows = <<>>
  /\ metric_rows = <<>>
  /\ ei = 0
  /\ etx = NoTx
  /\ esnap = NoTx
  /\ last = NoCall
  /\ ecaller = "direct"
  /\ fetched = <<>>
  /\ attempt = 1
  /\ frun = NoRun
  /\ VInit
  /\ XInit

\* build_evm_pool_rows(pools)
BuildEntityRows ==
  /\ ecaller = "direct"
  /\ pool_rows' = build_evm_pool_rows(pools, NowAt(clock))
  /\ ecaller' = "build_evm_pool_rows"
  /\ UNCHANGED <<clock, evm_pools, evm_pool_metrics, epc, pools, metric_rows, ei, etx,
                 esnap, last, fvars, frun, vvars, xvars>>

\* build_evm_pool_metric_rows(pools)
BuildMetricRows ==
  /\ ecaller = "build_evm_pool_rows"
  /\ metric_rows' = build_evm_pool_metric_rows(pools, NowAt(clock))
  /\ ecaller' = "build_evm_pool_metric_rows"
  /\ UNCHANGED <<clock, evm_pools, evm_pool_metrics, epc, pools, pool_rows, ei, etx,
                 esnap, last, fvars, frun, vvars, xvars>>

BuildNext == BuildEntityRows \/ BuildMetricRows

SpecBuild == BuildInit /\ [][BuildNext]_vars

\* a payload whose only history point lies beyond year 9999
FarFutureDetail ==
  [ portfolio |-> Some(<< <<"week", [pnlHistory |-> Some(<< <<900000000, 1>> >>)]>> >>) ]

\* build_metric_rows_from_details(details_map) on its own
BuildDetailsRows ==
  /\ vrun.kind = "none"
  /\ \E details \in SeqUpTo(VaultAddresses \X (DetailPayloads \cup {FarFutureDetail}), MaxVaults) :
       /\ \A i, j \in DOMAIN details : i # j => details[i][1] # details[j][1]
       /\ vrows' = build_metric_rows_from_details(details, NowAt(clock))
       /\ vrun' = [NoVaultRun EXCEPT !.kind = "build", !.addrs = details]
  /\ UNCHANGED <<clock, vaults, vault_metrics, vpc, vi, vtx, vsnap, evars, xvars>>

\* the values of an account-value history, and its greatest length
AccountValues == {-10, 0, 5, 10, 90, 100, 110, 120}

MaxHistory == 4

\* a vaultDetails payload whose "day" period has the account values `values`
HistoryDetail(values) ==
  [ portfolio |->
      Some(<< <<"day", [accountValueHistory |->
                          Some([i \in DOMAIN values |-> <<1700000, values[i]>>])]>> >>) ]

\* build_metric_rows_from_details on one payload with a given history
BuildDrawdownRow ==
  /\ vrun.kind = "none"
  /\ \E values \in SeqUpTo(AccountValues, MaxHistory) :
       LET details == << <<"0xa1", HistoryDetail(values)>> >>
       IN  /\ vrows' = build_metric_rows_from_details(details, NowAt(clock))
           /\ vrun' = [NoVaultRun EXCEPT !.kind = "drawdown", !.addrs = values]
  /\ UNCHANGED <<clock, vaults, vault_metrics, vpc, vi, vtx, vsnap, evars, xvars>>

\* _calculate_max_drawdown over the histories
SpecDrawdown == Init /\ [][BuildDrawdownRow]_vars

\* the row builders of both pipelines
SpecTimes == BuildInit /\ [][BuildNext \/ BuildDetailsRows]_vars

\* one run of one on-chain adapter's fetch_pools
SpecAdapter == Init /\ [][AdapterNext]_vars

\* update_top_500 calls, with the sessions that write metrics and read the ranking
SpecTop == Init /\ [][TopNext]_vars

\* one fetch_vault_details_batch call
\* No flow reads the ranking table and update_top_500 writes no other, so a
\* flow that runs after update_top_500 does what it does without it.
TopUntouched == trun.n = 0 /\ tpc = "idle"

\* a run of sync_evm_pools_flow, or repeated runs of its persistence step,
\* or runs of upsert_vault_metrics_flow and the metric upsert followed by
\* runs of update_top_500 on what they stored
StoreNext ==
  \/ EvmUntouched /\ VaultUntouched /\ TopUntouched /\ FlowStart
  \/ FetchTask \/ MergeAndPersist
  \/ frun.n = 0 /\ VaultUntouched /\ TopUntouched /\ PersistCall
  \/ ExecEntityBatch \/ ExecMetricBatch \/ CommitPersist
  \/ EvmUntouched /\ TopUntouched /\ VaultFlowStart
  \/ ExecVaultBatch \/ CommitVaultRows \/ FetchDetails
  \/ EvmUntouched /\ TopUntouched /\ UpsertMetricRowsCall
  \/ ExecVaultMetricBatch \/ CommitMetricRows
  \/ EvmUntouched /\ vpc = "idle" /\ SelectLatest
  \/ DeleteRanking \/ InsertRanking \/ CommitRanking \/ RankingFails

SpecStore == Init /\ [][StoreNext]_vars

SpecBatch == Init /\ [][BatchNext]_vars

\* the same under the scheduling of the event loop: a task that is ready to
\* run is run, the semaphore wakes a waiter when it is released, and every
\* POST ends, with an answer or with the timeout of the client
SpecBatchFair ==
  SpecBatch /\ WF_vars(WorkerAcquire) /\ WF_vars(WorkerPost) /\ WF_vars(BatchReturn)

(***************************************************************************)
(* Properties                                                              *)
(***************************************************************************)
\* the identifiers a pool list carries
IdsOf(L) == {PoolIdOf(L[i]) : i \in {j \in DOMAIN L : Buildable(L[j])}}

\* a persist_evm_pools call ends in this step
CallEnds ==
  \/ epc \in {"entities", "metrics", "commit"} /\ epc' = "idle"
  \/ epc \in {"idle", "merge"} /\ epc' = "idle" /\ last' # last

\* no identifier occurs twice among the rows of one statement
NoIdTwiceInBatch(L) ==
  LET kept == SelectSeq(L, Buildable)
  IN  \A i, j \in DOMAIN kept :
        (i < j /\ (i - 1) \div BATCH = (j - 1) \div BATCH)
          => PoolIdOf(kept[i]) # PoolIdOf(kept[j])

\* after the step: one entity row per identifier of the list and one metric
\* row per key of the list, with the value columns the tables held before
\* the call that ends
IdempotentOutcome ==
  /\ \A id \in IdsOf(last'.pools) :
       /\ Cardinality({e \in evm_pools' : e.pool_id = id}) = 1
       /\ \E f \in evm_pools : f.pool_id = id
       /\ \A e \in evm_pools', f \in evm_pools :
            (e.pool_id = id /\ f.pool_id = id) =>
              \A c \in {"protocol", "name", "symbol", "contract_address", "accepts_usdc",
                        "ltv", "liquidation_threshold", "liquidation_bonus",
                        "reserve_factor", "decimals", "source"} : e[c] = f[c]
  /\ \A i \in DOMAIN metric_rows' :
       Cardinality({m \in evm_pool_metrics' :
                      /\ m.pool_id = metric_rows'[i].pool_id
                      /\ m.timestampz = metric_rows'[i].timestampz}) = 1
  /\ \A f \in evm_pool_metrics :
       \E e \in evm_pool_metrics' :
         /\ e.pool_id = f.pool_id /\ e.timestampz = f.timestampz
         /\ \A c \in {"tvl_usd", "apy_base", "apy_reward", "apy_total", "total_debt_usd",
                      "utilization_rate", "apy_borrow_variable", "apy_borrow_stable"} :
              e[c] = f[c]

\* C1 as stated: for any pool list, a second persist_evm_pools call with the
\* same list leaves exactly one entity row per identifier and one metric row
\* per (identifier, timestamp), with every value column as the first call
\* left it.
C1_IdempotentAnyList ==
  [][(CallEnds /\ last'.again /\ last'.cause # "store") => IdempotentOutcome]_vars

\* C1, for the lists the store accepts: if no identifier occurs twice among
\* the rows of one statement, the second call with the same list returns
\* and leaves exactly one entity row per identifier and one metric row per
\* key, with every value column as the first call left it.
C1_Idempotent ==
  [][(CallEnds /\ last'.again /\ last'.cause # "store" /\ NoIdTwiceInBatch(last'.pools))
       => (last'.kind = "returned" /\ IdempotentOutcome)]_vars

\* a second call with the same list of more than one batch has returned
\* after hitting the rows of the first
C1_Witness ==
  /\ epc = "idle" /\ last.again /\ last.kind = "returned"
  /\ NoIdTwiceInBatch(last.pools)
  /\ Len(pool_rows) > BATCH
  /\ \E e \in evm_pools : e.created_at # e.updated_at

\* the last of the rows that carry identifier id
LastRowFor(rows, id) ==
  rows[CHOOSE i \in DOMAIN rows :
         rows[i].pool_id = id /\ \A j \in DOMAIN rows : rows[j].pool_id = id => j <= i]

\* C2: when a persist_evm_pools call returns, every identifier of its list
\* that had an entity row before the call has exactly one entity row, and
\* that row holds the call's value in each of the eleven mutable columns.
C2_LaterWriteWins ==
  [][(CallEnds /\ last'.kind = "returned") =>
       \A id \in IdsOf(last'.pools) :
         (\E f \in evm_pools : f.pool_id = id) =>
           /\ Cardinality({e \in evm_pools' : e.pool_id = id}) = 1
           /\ \A e \in evm_pools' :
                e.pool_id = id =>
                  \A c \in {"protocol", "name", "symbol", "contract_address",
                            "accepts_usdc", "ltv", "liquidation_threshold",
                            "liquidation_bonus", "reserve_factor", "decimals", "source"} :
                    e[c] = LastRowFor(pool_rows', id)[c]]_vars

\* a later call has returned after writing a different row for an
\* identifier that was stored
C2_Witness == epc = "idle" /\ last.kind = "returned" /\ last.overwrote

\* C4: while a persist_evm_pools call runs, none of its statements shows in
\* the committed tables; a call that raises leaves both tables as they were
\* when it began; a call that returns from its transaction has stored every
\* entity row and every metric row of its lists.
C4_Atomic ==
  [][/\ epc' \in {"entities", "metrics", "commit"} =>
          (evm_pools' = esnap'.pools /\ evm_pool_metrics' = esnap'.metrics)
     /\ (CallEnds /\ last'.kind = "raised") =>
          (evm_pools' = esnap.pools /\ evm_pool_metrics' = esnap.metrics)
     /\ (CallEnds /\ last'.kind = "returned" /\ epc = "commit") =>
          /\ \A i \in DOMAIN pool_rows :
               \E e \in evm_pools' :
                 e.pool_id = pool_rows[i].pool_id /\ e.updated_at = pool_rows[i].updated_at
          /\ \A i \in DOMAIN metric_rows :
               \E m \in evm_pool_metrics' :
                 /\ m.pool_id = metric_rows[i].pool_id
                 /\ m.timestampz = metric_rows[i].timestampz
                 /\ m.updated_at = metric_rows[i].updated_at]_vars

\* a call of more than one entity batch has raised in its metric batches
C4_Witness ==
  epc = "idle" /\ last.kind = "raised" /\ last.at = "metrics" /\ Len(pool_rows) > BATCH

\* C3: once a run of sync_evm_pools_flow has merged, the merged list holds,
\* for every identifier some source returned, exactly one row, and that row
\* carries every field of the row of the last source (in the order DeFi
\* Llama, Felix, Hyperlend, HypurrFi, Hyperbeat) that returned it; the
\* merged list holds no other identifier.
C3_MergePrecedence ==
  frun.merged =>
    /\ \A k \in DOMAIN fetched : \A i \in DOMAIN fetched[k] :
         LET p == fetched[k][i]
             id == PoolIdOf(p)
             later == \E k2 \in DOMAIN fetched : \E i2 \in DOMAIN fetched[k2] :
                        /\ k2 > k \/ (k2 = k /\ i2 > i)
                        /\ PoolIdOf(fetched[k2][i2]) = id
         IN  TruthyStr(id) =>
               /\ Cardinality({j \in DOMAIN pools : PoolIdOf(pools[j]) = id}) = 1
               /\ ~later =>
                    \E j \in DOMAIN pools :
                      /\ PoolIdOf(pools[j]) = id
                      /\ \A key \in DOMAIN p :
                           key \in DOMAIN pools[j] /\ pools[j][key] = p[key]
    /\ \A j \in DOMAIN pools :
         \E k \in DOMAIN fetched : \E i \in DOMAIN fetched[k] :
           PoolIdOf(fetched[k][i]) = PoolIdOf(pools[j])

\* a run has merged two sources' different rows for one identifier, and a
\* third source's row for another identifier
C3_Witness ==
  /\ frun.merged
  /\ Len(pools) = 2
  /\ \E k1, k2 \in DOMAIN fetched :
       /\ k1 < k2 /\ fetched[k1] # <<>> /\ fetched[k2] # <<>>
       /\ PoolIdOf(fetched[k1][1]) = PoolIdOf(fetched[k2][1])
       /\ Get(fetched[k1][1], "symbol") # Get(fetched[k2][1], "symbol")

\* C7 as stated: every entity row a run of sync_evm_pools_flow builds has
\* accepts_usdc = true exactly when the pool's symbol contains "usdc"
\* case-insensitively, whichever source supplied the pool.
C7_FlagMatchesSymbol ==
  frun.merged =>
    \A i \in DOMAIN pool_rows :
      pool_rows[i].accepts_usdc = Some(SymbolHasUsdc(pool_rows[i].symbol))

\* C10 as stated: in a run of sync_evm_pools_flow, the failure of one
\* adapter does not keep the adapters after it from being fetched nor the
\* merge from running.
C10_AdapterIsolation ==
  (frun.outcome \in {"raised", "returned"} /\ frun.raised # "none") =>
    (frun.started = Range(Adapters) /\ frun.merged)

\* C5 as stated: when a run of upsert_vault_metrics_flow fails at any step,
\* the database holds no write made by that run.
C5_NoPartialState ==
  (vrun.kind = "flow" /\ vrun.outcome = "raised") =>
    (vaults = vsnap.vaults /\ vault_metrics = vsnap.metrics)

C8_UpsertFrame ==
  [][/\ \A e \in evm_pools :
          \E f \in evm_pools' :
            /\ f.pool_id = e.pool_id
            /\ f.created_at = e.created_at
            /\ \A c \in DOMAIN e \ {"protocol", "name", "symbol", "contract_address",
                                   "accepts_usdc", "ltv", "liquidation_threshold",
                                   "liquidation_bonus", "reserve_factor", "decimals",
                                   "source", "updated_at"} : f[c] = e[c]
     /\ \A e, f \in evm_pools' : e.pool_id = f.pool_id => e = f
     /\ \A e \in vaults :
          \E f \in vaults' :
            /\ f.vault_address = e.vault_address
            /\ f.created_at = e.created_at
            /\ \A c \in DOMAIN e \ {"name", "leader_address", "is_closed", "description",
                                   "tvl_usd", "relationship_type", "vault_create_time",
                                   "updated_at"} : f[c] = e[c]
     /\ \A e, f \in vaults' : e.vault_address = f.vault_address => e = f]_vars

\* an entity upsert has hit a stored identifier: the row was created by an
\* earlier call and updated by a later one
C8_Witness ==
  \E e \in evm_pools :
    e.created_at = Some(NowAt(1)) /\ e.updated_at = Some(NowAt(2)) /\ last.overwrote

\* C9: a metric statement that the store accepts leaves, for every row it
\* proposes, exactly one stored row with that (timestamp, identifier) key,
\* and that row holds the proposed value, null included, in every numeric
\* column; this holds for evm_pool_metrics and for vault_metrics, and the
\* commit stores what the statements left.
C9_MetricFullReplace ==
  [][/\ (epc = "metrics" /\ epc' \in {"metrics", "commit"}) =>
          \A i \in DOMAIN Chunk(metric_rows, ei) :
            LET r == Chunk(metric_rows, ei)[i]
                hit == {m \in etx'.metrics :
                          m.pool_id = r.pool_id /\ m.timestampz = r.timestampz}
            IN  /\ Cardinality(hit) = 1
                /\ \A m \in hit :
                     \A c \in {"tvl_usd", "apy_base", "apy_reward", "apy_total",
                               "total_debt_usd", "utilization_rate",
                               "apy_borrow_variable", "apy_borrow_stable"} : m[c] = r[c]
     /\ (epc = "commit" /\ epc' = "idle" /\ last'.kind = "returned") =>
          evm_pool_metrics' = etx.metrics
     /\ (vpc = "metric_rows" /\ vpc' \in {"metric_rows", "metric_commit"}) =>
          \A i \in DOMAIN Chunk(vrows, vi) :
            LET r == Chunk(vrows, vi)[i]
                hit == {m \in vtx'.table :
                          m.vault_address = r.vault_address /\ m.timestampz = r.timestampz}
            IN  /\ Cardinality(hit) = 1
                /\ \A m \in hit :
                     \A c \in {"apr", "max_distributable_tvl", "leader_commission",
                               "follower_count", "pnl_day", "pnl_week", "pnl_month",
                               "pnl_all_time", "vlm_day", "vlm_week", "vlm_month",
                               "vlm_all_time", "max_drawdown_day", "max_drawdown_week",
                               "max_drawdown_month", "max_drawdown_all_time"} :
                       m[c] = r[c]
     /\ (vpc = "metric_commit" /\ vpc' = "idle" /\ vrun'.outcome = "returned") =>
          vault_metrics' = vtx.table]_vars

\* a persist_evm_pools call has returned after replacing a stored metric
\* value by null under an existing key, and the key has one row
C9_Witness ==
  /\ epc = "idle" /\ last.kind = "returned" /\ last.nulled
  /\ \E m \in evm_pool_metrics :
       /\ m.created_at # m.updated_at /\ m.apy_reward = None
       /\ Cardinality({x \in evm_pool_metrics :
                         x.pool_id = m.pool_id /\ x.timestampz = m.timestampz}) = 1

\* a run of the metric task has replaced stored vault metric values by null
\* under an existing key
C9_VaultWitness ==
  /\ vpc = "idle" /\ vrun.kind = "task" /\ vrun.outcome = "returned"
  /\ \E m \in vault_metrics : m.created_at # m.updated_at /\ m.apr = None

\* a vault upsert has hit a stored address
C8_VaultWitness == \E v \in vaults : v.created_at # v.updated_at

\* the identifiers of the fetched items, whichever source returned them
FetchedIds(lists) ==
  {id \in {"p1", "p2", "p3"} :
     \E k \in DOMAIN lists : \E i \in DOMAIN lists[k] :
       LET p == lists[k][i]
       IN  \/ ("pool" \in DOMAIN p /\ p["pool"] = <<id>>)
           \/ ("pool_id" \in DOMAIN p /\ p["pool_id"] = <<id>>)}

\* C14: a run of sync_evm_pools_flow with persist = false opens no
\* transaction and leaves both tables as they were, and every run that
\* returns, with persist false or true, returns the pair (n, n) where n is
\* the number of identifiers among the fetched items: the dry run returns
\* the counts the persisting run on the same data returns, (0, 0) when no
\* fetched item has an identifier.
C14_DryRun ==
  [][ /\ ~frun'.persist =>
           /\ etx' = NoTx
           /\ evm_pools' = evm_pools
           /\ evm_pool_metrics' = evm_pool_metrics
      /\ frun'.outcome = "returned" =>
           frun'.ret = <<Cardinality(FetchedIds(fetched')), Cardinality(FetchedIds(fetched'))>>
    ]_vars

\* a dry run has returned the counts of two merged pools
C14_Witness ==
  /\ ~frun.persist /\ frun.outcome = "returned" /\ frun.merged
  /\ frun.ret = <<2, 2>>
  /\ evm_pools = {}

\* a dry run over items without identifier has returned (0, 0)
C14_ZeroWitness ==
  /\ ~frun.persist /\ frun.outcome = "returned"
  /\ frun.ret = <<0, 0>>
  /\ \E k \in DOMAIN fetched : fetched[k] # <<>>

\* a persisting run has committed and returned the counts of two pools
C14_PersistWitness ==
  /\ frun.persist /\ frun.outcome = "returned"
  /\ frun.ret = <<2, 2>>
  /\ Cardinality(evm_pools) = 2

\* the items of the input list that are dicts with a non-empty pool or
\* pool_id, and the identifier such an item carries
HasId(p) ==
  /\ "__nondict__" \notin DOMAIN p
  /\ \/ ("pool" \in DOMAIN p /\ p["pool"] \notin {<<>>, <<"">>})
     \/ ("pool_id" \in DOMAIN p /\ p["pool_id"] \notin {<<>>, <<"">>})

IdOfItem(p) ==
  IF "pool" \in DOMAIN p /\ p["pool"] \notin {<<>>, <<"">>} THEN p["pool"] ELSE p["pool_id"]

\* how many items with an identifier the list has up to position i
IdRank(L, i) == Cardinality({k \in 1..i : HasId(L[k])})

\* C15: build_evm_pool_rows and build_evm_pool_metric_rows each emit one
\* row for every dict item with a non-empty pool or pool_id, none for any
\* other item, in input order; the two outputs have the same length and the
\* same identifier at every position.
C15_SkipMissingId ==
  ecaller = "build_evm_pool_metric_rows" =>
    /\ Len(pool_rows) = IdRank(pools, Len(pools))
    /\ Len(metric_rows) = IdRank(pools, Len(pools))
    /\ \A i \in DOMAIN pools :
         HasId(pools[i]) =>
           /\ pool_rows[IdRank(pools, i)].pool_id = IdOfItem(pools[i])
           /\ metric_rows[IdRank(pools, i)].pool_id = IdOfItem(pools[i])
    /\ \A j \in DOMAIN pool_rows : pool_rows[j].pool_id = metric_rows[j].pool_id

\* both builders have run on a list that holds an item without identifier
\* between two items with different identifiers
C15_Witness ==
  /\ ecaller = "build_evm_pool_metric_rows"
  /\ Len(pools) = 3 /\ HasId(pools[1]) /\ ~HasId(pools[2]) /\ HasId(pools[3])
  /\ Len(pool_rows) = 2 /\ Len(metric_rows) = 2
  /\ pool_rows[1].pool_id # pool_rows[2].pool_id

\* C11 as stated: when a contract call inside fetch_pools has run out of
\* its rate-limit retries, fetch_pools does not raise; it returns its list,
\* which lacks a row at most for the items in which a call failed.
C11_ExhaustionPerItem ==
  (ahist.exhausted # {} /\ apos \in {"returned", "raised"}) =>
    /\ apos = "returned"
    /\ Len(aresults) >= NumItems(aname, avals) - Cardinality(ahist.faulty \ {0})

\* a call whose retries ran out has cost one item its row, and the run has
\* returned the row of the other item
C11_ItemDropped ==
  /\ apos = "returned"
  /\ \E e \in ahist.exhausted : e[1] = 1
  /\ Len(aresults) = 1
  /\ NumItems(aname, avals) = 2

\* C12: a call that the node rate-limits on its first k invocations, k < 5,
\* and answers on invocation k + 1 ends with that answer after exactly k + 1
\* invocations; a running call has never been invoked more often than there
\* were rate-limit answers before.
C12_RetryCount ==
  /\ (ahist.last.outcome # "none" /\ ahist.last.script.fails < 5
        /\ ahist.last.script.then = "ok") =>
       /\ ahist.last.outcome = "value"
       /\ ahist.last.value # None
       /\ ahist.last.invoked = ahist.last.script.fails + 1
  /\ acall.invoked <= acall.script.fails

\* a call answered on its third invocation has returned (the example of the
\* spec), in an adapter that then went on
C12_Witness ==
  /\ ahist.last.script = [fails |-> 2, then |-> "ok"]
  /\ ahist.last.outcome = "value"
  /\ ahist.last.invoked = 3

\* a call answered on its fifth and last invocation has returned
C12_LastTryWitness ==
  /\ ahist.last.script = [fails |-> 4, then |-> "ok"]
  /\ ahist.last.outcome = "value"
  /\ ahist.last.invoked = 5

\* C13: when is_connected() answers false, fetch_pools of Felix, Hyperbeat
\* and HypurrFi returns an empty list without having invoked a contract
\* call, and does not raise.
C13_NotConnectedEmpty ==
  (aname \in {"felix", "hyperbeat", "hypurrfi"} /\ ~ahist.connected) =>
    /\ apos = "returned"
    /\ aresults = <<>>
    /\ ~ahist.called
    /\ acall = NoRpcCall

\* fetch_pools of HypurrFi has returned on a provider that is not connected
C13_Witness ==
  /\ aname = "hypurrfi" /\ ~ahist.connected /\ apos = "returned"

C13_FelixWitness ==
  /\ aname = "felix" /\ ~ahist.connected /\ apos = "returned"

C13_HyperbeatWitness ==
  /\ aname = "hyperbeat" /\ ~ahist.connected /\ apos = "returned"

\* the fields a call feeds when no later call can still supply its value
FieldsFedBy(site) ==
  CASE site \in {"getAssetPrice", "v.getAssetPrice", "cdp.lastGoodPrice"} -> {"tvl_usd"}
    [] site \in {"totalSupply", "v.totalSupply", "cdp.balanceOf", "h.totalSupply"} -> {"tvl_usd"}
    [] site \in {"decimals", "cdp.decimals", "v.decimals"} -> {"decimals", "tvl_usd"}
    [] site \in {"cdp.getSystemDebt", "debt.totalSupply"} -> {"total_debt_usd"}
    [] OTHER -> {}

\* the raw amounts the node reported for a row
ReportedAmounts(src, keys) == {src[k] : k \in keys \cap DOMAIN src}

\* C20 as stated: in every row fetch_pools emits, a numeric field whose
\* value the adapter could not obtain because the price, balance, debt or
\* decimals call failed is null or absent, and where every call feeding
\* tvl_usd / total_debt_usd succeeded the field is zero only when the node
\* reported a zero amount.
C20_NullNotZero ==
  \A i \in DOMAIN aresults :
    LET row == aresults[i]
        pv  == ahist.prov[i]
        Obtained(f) == \A site \in pv.failed : f \notin FieldsFedBy(site)
    IN  /\ \A site \in pv.failed : \A f \in FieldsFedBy(site) :
             f \notin DOMAIN row \/ row[f] = None
        /\ (row["tvl_usd"] = Some(Zero) /\ Obtained("tvl_usd")) =>
             0 \in ReportedAmounts(pv.vals, {"raw_balance", "raw_collateral_balance",
                                             "total_supply_raw"})
        /\ (row["total_debt_usd"] = Some(Zero) /\ Obtained("total_debt_usd")) =>
             \/ 0 \in ReportedAmounts(pv.vals, {"raw_debt", "total_debt_raw"})
             \/ DOMAIN pv.vals \cap {"raw_debt", "total_debt_raw"} = {}


\* the vault addresses that have at least one row in a metrics table
AddressesWithMetrics(metrics) == {r.vault_address : r \in metrics}

\* the most recent metric row of a vault
MostRecentRow(metrics, addr) ==
  CHOOSE m \in metrics :
    /\ m.vault_address = addr
    /\ \A q \in metrics : q.vault_address = addr => q.timestampz[1] <= m.timestampz[1]

\* C16: when update_top_500 has committed, top_500_vaults holds exactly the
\* rows computed by this call and none that were there before: k rows, k the
\* smaller of the query's LIMIT and the number of vault addresses that had a
\* metric row when the query ran, at most one row per vault address, the
\* ranks being exactly 1..k, and the call returns k.
C16_FullReplace ==
  trun.at = "committed" =>
    LET k == Min(TopLimit, Cardinality(AddressesWithMetrics(trun.metrics)))
    IN  /\ Cardinality(top_500_vaults) = k
        /\ \A r \in top_500_vaults : r.updated_at = Some(trun.now)
        /\ \A r, q \in top_500_vaults : r.vault_address = q.vault_address => r = q
        /\ {r.rank : r \in top_500_vaults} = 1..k
        /\ \A r \in top_500_vaults :
             r.vault_address \in AddressesWithMetrics(trun.metrics)
        /\ trun.ret = Some(k)

\* a second call committed over a ranking of which one vault is gone, with
\* more vaults having metrics than the LIMIT keeps
C16_Witness ==
  /\ trun.at = "committed"
  /\ trun.n = 2
  /\ Cardinality(AddressesWithMetrics(trun.metrics)) > TopLimit
  /\ \E o \in trun.old : \A r \in top_500_vaults : r.vault_address # o.vault_address

\* a call committed an empty ranking over a table nobody had filled
C16_EmptyWitness == trun.at = "committed" /\ top_500_vaults = {} /\ trun.ret = Some(0)

\* v ranks strictly above w: descending, NULL below every value
RanksAbove(v, w) == v # None /\ (w = None \/ v[1] > w[1])

\* C17: when update_top_500 has committed, every ranked row carries the
\* max_distributable_tvl and the time of the most recent metric row its vault
\* had when the query ran; along the ranks the value never increases and no
\* NULL comes before a value; and no vault left out of the ranking has a
\* latest value that ranks above that of a ranked vault.
C17_SelectionAndOrder ==
  trun.at = "committed" =>
    /\ \A r \in top_500_vaults :
         LET m == MostRecentRow(trun.metrics, r.vault_address)
         IN  r.tvl_usd = m.max_distributable_tvl /\ r.metrics_time = m.timestampz
    /\ \A r, q \in top_500_vaults : r.rank < q.rank => ~RanksAbove(q.tvl_usd, r.tvl_usd)
    /\ \A a \in AddressesWithMetrics(trun.metrics) :
         (\A r \in top_500_vaults : r.vault_address # a) =>
           \A r \in top_500_vaults :
             ~RanksAbove(MostRecentRow(trun.metrics, a).max_distributable_tvl, r.tvl_usd)

\* a committed ranking with a NULL ranked after a value and a vault left out
C17_Witness ==
  /\ trun.at = "committed"
  /\ \E r, q \in top_500_vaults : r.rank < q.rank /\ r.tvl_usd # None /\ q.tvl_usd = None
  /\ \E a \in AddressesWithMetrics(trun.metrics) :
       \A r \in top_500_vaults : r.vault_address # a

\* a committed ranking with a vault whose latest value differs from its
\* earlier one
C17_LatestWitness ==
  /\ trun.at = "committed"
  /\ \E r \in top_500_vaults :
       \E q \in trun.metrics :
         /\ q.vault_address = r.vault_address
         /\ q.timestampz # r.metrics_time
         /\ q.max_distributable_tvl # r.tvl_usd

\* a committed ranking of two different values, a vault with a smaller one
\* left out
C17_DescendingWitness ==
  /\ trun.at = "committed"
  /\ \E r, q \in top_500_vaults : r.rank < q.rank /\ RanksAbove(r.tvl_usd, q.tvl_usd)
  /\ \E m \in trun.metrics :
       /\ \A r \in top_500_vaults : r.vault_address # m.vault_address
       /\ \E r \in top_500_vaults : RanksAbove(r.tvl_usd, m.max_distributable_tvl)

\* a ranking as one call writes it: ranks 1..k, one updated_at
CompleteRanking(table) ==
  /\ {r.rank : r \in table} = 1..Cardinality(table)
  /\ \A r, q \in table : r.updated_at = q.updated_at

\* C18: the DELETE and the INSERT of update_top_500 are one transaction: a
\* SELECT of another session returns a complete ranking, the one committed
\* last, also while the call is between its DELETE and its COMMIT; and a call
\* that fails after its DELETE leaves the ranking it found.
C18_AtomicSwap ==
  /\ tseen.n > 0 => tseen.rows = tseen.committed /\ CompleteRanking(tseen.rows)
  /\ (trun.outcome = "raised" /\ tpc = "idle") => top_500_vaults = trun.old

\* another session read the table after the DELETE of a call that found a
\* ranking in it
C18_Witness == tseen.during = "deleted" /\ tseen.committed # {}

\* a call failed after its DELETE, or after its INSERT, over a ranking
C18_FailureWitness ==
  trun.outcome = "raised" /\ trun.at \in {"deleted", "inserted"} /\ trun.old # {} /\ tpc = "idle"


\* the workers of an address
WorkersOf(addr) == {i \in DOMAIN baddresses : baddresses[i] = addr}

IsErrorRecord(entry) == "error" \in DOMAIN entry

\* C19: when fetch_vault_details_batch has returned, the keys of the mapping
\* are exactly the distinct addresses of the list; the entry of an address is
\* the payload if a POST for it succeeded, and otherwise an error record,
\* with a status_code exactly when the last exception was an HTTP status
\* error.
C19_BatchCompleteness ==
  bpc = "returned" =>
    /\ DOMAIN bresults = Range(baddresses)
    /\ \A addr \in Range(baddresses) :
         IF \E i \in WorkersOf(addr) : bworkers[i].ok
         THEN bresults[addr] = DetailsPayload(addr)
         ELSE /\ IsErrorRecord(bresults[addr])
              /\ \E i \in WorkersOf(addr) : bresults[addr] = error_record(bworkers[i].last_exc[1])

\* the same for a list without duplicates
C19_DistinctAddresses ==
  (\A i, j \in DOMAIN baddresses : baddresses[i] = baddresses[j] => i = j)
    => C19_BatchCompleteness

\* the batch returned a payload for one address and an error record with a
\* status code for another
C19_MixedBatch ==
  /\ bpc = "returned"
  /\ \E a, b \in DOMAIN bresults :
       /\ bresults[a] = DetailsPayload(a)
       /\ IsErrorRecord(bresults[b]) /\ "status_code" \in DOMAIN bresults[b]

\* every call either is running or has returned its mapping with one entry
\* per distinct address: no worker's failure ends the batch otherwise
C19_KeysAreAddresses ==
  /\ bpc \in {"idle", "running", "returned"}
  /\ bpc = "returned" => DOMAIN bresults = Range(baddresses)


\* the items build_evm_pool_metric_rows keeps, and the raw timestamp of one
KeptPools == SelectSeq(pools, Buildable)

RawTimestamp(p) == Get(p, "timestamp")

\* the raw value, after the milliseconds heuristic, is a second of years 1970-9999
InRange(n) == (IF n > MillisThreshold THEN n \div 1000 ELSE n) <= MaxTimestamp

\* C21 as stated: every metric row of both builders has a time key; in
\* build_evm_pool_metric_rows a numeric timestamp above the threshold is read
\* as milliseconds and any other numeric timestamp as seconds, a missing or
\* unconvertible one gives the processing time.
C21_AnyOtherAsSeconds ==
  ecaller = "build_evm_pool_metric_rows" =>
    \A i \in DOMAIN metric_rows :
      LET raw == RawTimestamp(KeptPools[i])
          t   == metric_rows[i].timestampz
      IN  /\ t # None
          /\ (raw = None \/ (raw # None /\ ~InRange(raw[1]))) => t = Some(NowAt(clock))
          /\ (raw # None /\ InRange(raw[1]) /\ raw[1] > MillisThreshold)
               => t = Some(raw[1] \div 1000)
          /\ (raw # None /\ InRange(raw[1]) /\ raw[1] <= MillisThreshold) => t = raw

\* C21: every row built by build_evm_pool_metric_rows and by
\* build_metric_rows_from_details has a time key that is not null.  In
\* build_evm_pool_metric_rows a numeric timestamp above the threshold is read
\* as milliseconds and any other numeric timestamp except zero as seconds; a
\* missing, zero or unconvertible timestamp gives the processing time.
C21_TimeKeyNeverNull ==
  /\ ecaller = "build_evm_pool_metric_rows" =>
       /\ Len(metric_rows) = Len(KeptPools)
       /\ \A i \in DOMAIN metric_rows :
            LET raw == RawTimestamp(KeptPools[i])
                t   == metric_rows[i].timestampz
            IN  /\ t # None
                /\ (raw = None \/ raw = Some(0) \/ (raw # None /\ ~InRange(raw[1])))
                     => t = Some(NowAt(clock))
                /\ (raw # None /\ InRange(raw[1]) /\ raw[1] > MillisThreshold)
                     => t = Some(raw[1] \div 1000)
                /\ (raw # None /\ InRange(raw[1]) /\ raw[1] <= MillisThreshold /\ raw[1] # 0)
                     => t = raw
  /\ vrun.kind = "build" =>
       \A i \in DOMAIN vrows : vrows[i].timestampz # None /\ vrows[i].timestampz[1] <= MaxTimestamp

\* rows were built from a timestamp in milliseconds, one in seconds and one
\* that is zero
C21_Witness ==
  /\ ecaller = "build_evm_pool_metric_rows"
  /\ \E i, j, k \in DOMAIN metric_rows :
       /\ RawTimestamp(KeptPools[i]) = Some(1700000) /\ metric_rows[i].timestampz = Some(1700)
       /\ RawTimestamp(KeptPools[j]) = Some(1700) /\ metric_rows[j].timestampz = Some(1700)
       /\ RawTimestamp(KeptPools[k]) = Some(0) /\ metric_rows[k].timestampz = Some(NowAt(clock))

\* rows were built from an item without timestamp and from one whose
\* timestamp no datetime can hold
C21_FallbackWitness ==
  /\ ecaller = "build_evm_pool_metric_rows"
  /\ \E i, j \in DOMAIN metric_rows :
       /\ RawTimestamp(KeptPools[i]) = None
       /\ RawTimestamp(KeptPools[j]) # None /\ ~InRange(RawTimestamp(KeptPools[j])[1])

\* build_metric_rows_from_details built a row from a payload without any
\* history and one from a payload with a history
C21_VaultWitness ==
  /\ vrun.kind = "build"
  /\ \E i, j \in DOMAIN vrows :
       vrows[i].timestampz = Some(NowAt(clock)) /\ vrows[j].timestampz = Some(1700)


\* the running peak of a history at point i, and the drawdown there in percent
RunningPeak(values, i) ==
  CHOOSE m \in {values[j] : j \in 1..i} : \A j \in 1..i : values[j] <= m

DrawdownAt(values, i) ==
  ((RunningPeak(values, i) - values[i]) * 100) \div RunningPeak(values, i)

\* C22: for a non-empty account-value history _calculate_max_drawdown gives
\* the largest drawdown, in percent, over the points whose running peak is
\* positive, and 0 when there is no such point; the result is never
\* negative; for an empty history it gives None.
C22_MaxDrawdown ==
  vrun.kind = "drawdown" =>
    LET values == vrun.addrs
        got == vrows[1].max_drawdown_day
        points == {i \in DOMAIN values : RunningPeak(values, i) > 0}
    IN  /\ Len(vrows) = 1
        /\ values = <<>> => got = None
        /\ values # <<>> =>
             /\ got # None
             /\ got[1] >= 0
             /\ points = {} => got[1] = 0
             /\ points # {} =>
                  /\ \E i \in points : got[1] = DrawdownAt(values, i)
                  /\ \A i \in points : got[1] >= DrawdownAt(values, i)
        /\ vrows[1].max_drawdown_week = None

\* the history 100, 120, 90, 110 gave 25
C22_Witness ==
  vrun.kind = "drawdown" /\ vrun.addrs = <<100, 120, 90, 110>>
    /\ vrows[1].max_drawdown_day = Some(25)

\* the history 0, 10, 5 gave 50
C22_ZeroStartWitness ==
  vrun.kind = "drawdown" /\ vrun.addrs = <<0, 10, 5>> /\ vrows[1].max_drawdown_day = Some(50)

\* a history that never rises above zero gave 0, an empty one None
C22_NoPeakWitness ==
  vrun.kind = "drawdown" /\ vrun.addrs = <<0, -10>> /\ vrows[1].max_drawdown_day = Some(0)


\* no two rows of the list share the columns of the conflict key
OneRowPerKey(rows, keyCols) ==
  \A i, j \in DOMAIN rows : KeyOf(rows[i], keyCols) = KeyOf(rows[j], keyCols) => i = j

\* C23: the rows a run hands to an upsert never contain two rows with the
\* same conflict key: the vault rows of build_vault_rows handed to
\* upsert_vault_rows (vault_address), the metric rows handed to
\* upsert_metric_rows ((time, vault_address)), and the entity and metric rows
\* of a sync_evm_pools_flow run (pool_id; (time, pool_id)).
C23_OneRowPerIdentifier ==
  /\ vpc = "vault_rows" => OneRowPerKey(vrows, VaultKey)
  /\ vpc = "metric_rows" => OneRowPerKey(vrows, VaultMetricKey)
  /\ (ecaller = "flow" /\ epc # "idle") =>
       OneRowPerKey(pool_rows, EvmPoolKey) /\ OneRowPerKey(metric_rows, EvmPoolMetricKey)

\* the part of C23 about sync_evm_pools_flow: the merged list gives one
\* entity row per pool_id and one metric row per (time, pool_id)
C23_FlowRowsUnique ==
  (ecaller = "flow" /\ epc # "idle") =>
    OneRowPerKey(pool_rows, EvmPoolKey) /\ OneRowPerKey(metric_rows, EvmPoolMetricKey)

\* a flow run persists rows although two adapters returned the same pool_id
C23_FlowMergedDuplicate ==
  /\ ecaller = "flow" /\ epc # "idle" /\ pool_rows # <<>>
  /\ \E i, j \in DOMAIN fetched : \E a \in DOMAIN fetched[i], b \in DOMAIN fetched[j] :
       i # j /\ PoolIdOf(fetched[i][a]) = PoolIdOf(fetched[j][b])


\* C24: a call whose every invocation is answered with a rate-limit error is
\* invoked at most CallRetries times more after the first, there is exactly
\* one sleep before each retry and none after the last failure, and the call
\* then raises.
C24_RetryBoundAndBackoff ==
  ahist.last.outcome = "exhausted" =>
    /\ ahist.last.invoked - 1 <= CallRetries
    /\ ahist.last.slept = ahist.last.invoked - 1

\* what the retry loop does: at most CallRetries invocations per call, one
\* sleep after every rate-limit answer, the last one included
C24_SleepsPerCall ==
  /\ acall.invoked < CallRetries /\ acall.slept = acall.invoked
  /\ ahist.last.invoked <= CallRetries
  /\ ahist.last.outcome = "exhausted" =>
       ahist.last.invoked = CallRetries /\ ahist.last.slept = CallRetries
  /\ ahist.last.outcome \in {"value", "error"} => ahist.last.slept = ahist.last.invoked - 1

\* a call was given up after its last rate-limit answer
C24_Exhausted == ahist.last.outcome = "exhausted"


\* C25: a network call of an adapter that times out is retried rather than
\* failing on the first timeout: no contract call whose node answers with a
\* timeout ends with that error re-raised.
C25_TimeoutsRetried ==
  (ahist.last.outcome # "none" /\ ahist.last.script.then = "timeout") =>
     ahist.last.outcome # "error"

\* a contract call that timed out on its first invocation was re-raised
\* after that one invocation and no sleep
C25_TimeoutNotRetried ==
  /\ ahist.last.outcome = "error"
  /\ ahist.last.script = [fails |-> 0, then |-> "timeout"]
  /\ ahist.last.invoked = 1
  /\ ahist.last.slept = 0

\* fetch_vault_details_batch does retry a timeout: a worker that gave up on
\* a TimeoutException has used all max_retries + 1 attempts
C25_BatchRetriesTimeout ==
  \A i \in DOMAIN bworkers :
     (bworkers[i].pc = "done" /\ ~bworkers[i].ok
        /\ bworkers[i].last_exc = Some([type |-> "TimeoutException", status |-> 0])) =>
       bworkers[i].attempt = MaxRetries

\* a worker of the batch fetch posts again after a timeout
C25_BatchTimeoutRetry ==
  \E i \in DOMAIN bworkers :
     /\ bworkers[i].pc = "posting"
     /\ bworkers[i].attempt = 1
     /\ bworkers[i].last_exc = Some([type |-> "TimeoutException", status |-> 0])


\* the calls HypurrFiClient.fetch_pools makes before its item loop
SetUpSites == {"getPool", "getPriceOracle", "getReservesList"}

\* C26: a contract call that raises an error which is no rate limit is
\* re-raised by that invocation, with no retry and no sleep after it, on
\* whichever attempt it occurs, and the per-item handler of fetch_pools
\* catches it: the exception does not leave fetch_pools.
C26_NotRetriedAndCaught ==
  ahist.last.outcome = "error" =>
     /\ ahist.last.invoked = ahist.last.script.fails + 1
     /\ ahist.last.slept = ahist.last.script.fails
     /\ apos # "raised"

\* the retry half: the invocation that raised the other error was the last
\* one, and every sleep of the call followed an earlier rate-limit answer
C26_NoRetryAfterError ==
  ahist.last.outcome = "error" =>
     /\ ahist.last.script.then \in {"timeout", "revert"}
     /\ ahist.last.invoked = ahist.last.script.fails + 1
     /\ ahist.last.slept = ahist.last.script.fails

\* the handler half inside the item loops: such an error leaves fetch_pools
\* only from a call made before the loop
C26_CaughtInsideLoop ==
  (ahist.last.outcome = "error" /\ apos = "raised") =>
     aname = "hypurrfi" /\ ahist.last.site \in SetUpSites

\* a revert of getPriceOracle, on its second attempt, has left fetch_pools
C26_SetUpErrorEscapes ==
  /\ aname = "hypurrfi" /\ apos = "raised"
  /\ ahist.last.site = "getPriceOracle"
  /\ ahist.last.outcome = "error"
  /\ ahist.last.script = [fails |-> 1, then |-> "revert"]

\* a revert inside the loop, after two rate-limit answers, was caught and
\* the loop went on
C26_CaughtWitness ==
  /\ ahist.last.outcome = "error"
  /\ ahist.last.script = [fails |-> 2, then |-> "revert"]
  /\ ahist.last.invoked = 3
  /\ apos \notin {"raised", "returned", "idle"}


\* the identifier of item n of the loop of an adapter
ItemId(adapter, vals, n) ==
  CASE adapter = "felix" -> FelixMarkets[n].addr
    [] adapter = "hyperbeat" -> HyperbeatVaults[n].addr
    [] adapter = "hypurrfi" -> vals["reserves_list"][n]

\* the item loop of fetch_pools has been entered
LoopStarted == aname # "none" /\ aitem >= 1

\* C27: once the item loop of fetch_pools has started, a failure while
\* processing an item costs at most that item its row: no exception leaves
\* fetch_pools, every finished item none of whose calls failed has its row,
\* no item has two, and the rows stand in item order under the items'
\* identifiers.
C27_ItemIsolation ==
  LoopStarted =>
    /\ apos # "raised"
    /\ Len(ahist.prov) = Len(aresults)
    /\ \A k \in DOMAIN aresults :
         /\ ahist.prov[k].item \in 1..(aitem - 1)
         /\ aresults[k].pool_id = Some(ItemId(aname, avals, ahist.prov[k].item))
         /\ \A j \in DOMAIN aresults : j < k => ahist.prov[j].item < ahist.prov[k].item
    /\ \A n \in 1..(aitem - 1) :
         n \notin ahist.faulty => \E k \in DOMAIN aresults : ahist.prov[k].item = n

\* fetch_pools has returned the row of the second item alone: a call of the
\* first item failed and the item was dropped
C27_Witness ==
  /\ apos = "returned"
  /\ aitem = 3
  /\ 1 \in ahist.faulty
  /\ Len(aresults) = 1
  /\ ahist.prov[1].item = 2

\* the same in a run of HypurrFi, whose items are the reserves the node listed
C27_HypurrFiWitness == C27_Witness /\ aname = "hypurrfi"

\* Hyperbeat has returned a row for a vault one of whose calls failed
C27_FallbackWitness ==
  /\ aname = "hyperbeat" /\ apos = "returned"
  /\ Len(aresults) = 2
  /\ ahist.faulty # {}

\* a run without failures has returned both rows
C27_BothRows ==
  /\ apos = "returned"
  /\ Len(aresults) = 2
  /\ ahist.faulty = {}


\* every worker of the batch has finished
AllWorkersDone == \A i \in DOMAIN bworkers : bworkers[i].pc = "done"

\* C28: at every moment of fetch_vault_details_batch at most `concurrency`
\* workers hold the semaphore (posting or asleep between retries), no worker
\* posts more than max_retries + 1 times, and every worker of a running
\* batch eventually acquires the semaphore and finishes, after which the
\* call returns.
C28_BoundedConcurrency ==
  /\ [](/\ Cardinality(Holders(bworkers)) <= Concurrency
        /\ \A i \in DOMAIN bworkers : bworkers[i].attempt + 1 <= MaxRetries + 1)
  /\ (bpc = "running") ~> (AllWorkersDone /\ bpc = "returned")

\* a batch of more addresses than the semaphore admits: two workers hold it,
\* one has posted max_retries + 1 times and is about to give up or succeed,
\* and a third is waiting
C28_Witness ==
  /\ bpc = "running"
  /\ Len(bworkers) = 3
  /\ Cardinality(Holders(bworkers)) = Concurrency
  /\ \E i \in DOMAIN bworkers : bworkers[i].pc = "waiting"
  /\ \E i \in DOMAIN bworkers : bworkers[i].pc = "posting" /\ bworkers[i].attempt = MaxRetries

\* that batch has returned with every worker finished
C28_ReturnedWitness ==
  /\ bpc = "returned"
  /\ Len(bworkers) = 3
  /\ AllWorkersDone
  /\ \E i \in DOMAIN bworkers : bworkers[i].attempt = MaxRetries


\* the fetches of a run in the order DeFi Llama, Felix, Hyperlend, HypurrFi,
\* Hyperbeat, and the first k of them
FetchOrder == <<"defillama", "felix", "hyperlend", "hypurrfi", "hyperbeat">>

FirstFetches(k) == {FetchOrder[i] : i \in 1..k}

\* C29: in every run of sync_evm_pools_flow the adapters started so far are
\* the first k of DeFi Llama, Felix, Hyperlend, HypurrFi, Hyperbeat, and all
\* of them but possibly the last have returned their list: the k-th fetch
\* starts only after the k - 1 before it have returned.  Merge and
\* persistence happen only when all five have returned.
C29_SequentialAdapters ==
  /\ \E k \in 0..5 :
       /\ frun.started = FirstFetches(k)
       /\ Len(fetched) \in {k - 1, k}
       /\ Len(fetched) = k - 1 => (epc = "fetch" \/ frun.raised = FetchOrder[k])
  /\ \A i \in DOMAIN fetched : FetchOrder[i] \in frun.started
  /\ (epc \notin {"idle", "fetch"} \/ frun.merged) => Len(fetched) = 5

\* a fetch after the first has raised once and is being retried: the ones
\* before it have returned, the ones after it have not started
C29_Witness ==
  /\ epc = "fetch"
  /\ attempt = 2
  /\ Len(fetched) >= 1
  /\ Cardinality(frun.started) = Len(fetched) + 1

\* all five have returned and the merge is about to run
C29_MergeWitness ==
  /\ epc = "merge"
  /\ Len(fetched) = 5
  /\ ~frun.merged


\* the stored entity identifiers and metric keys of the two schemas
EntityIds == {e.pool_id : e \in evm_pools} \cup {v.vault_address : v \in vaults}

MetricKeys ==
  {<<m.pool_id, m.timestampz>> : m \in evm_pool_metrics}
    \cup {<<m.vault_address, m.timestampz>> : m \in vault_metrics}

\* C30: over the runs of sync_evm_pools_flow, upsert_vault_metrics_flow and
\* update_top_500, committed or rolled back, no step removes a row of the
\* entity tables or of the metric tables: every stored identifier and every
\* stored metric key is still stored after the step, and no table has fewer
\* rows than before.
C30_OnlyAccumulate ==
  [][/\ EntityIds \subseteq EntityIds'
     /\ MetricKeys \subseteq MetricKeys'
     /\ Cardinality(evm_pools) <= Cardinality(evm_pools')
     /\ Cardinality(evm_pool_metrics) <= Cardinality(evm_pool_metrics')
     /\ Cardinality(vaults) <= Cardinality(vaults')
     /\ Cardinality(vault_metrics) <= Cardinality(vault_metrics')]_vars

\* a second persistence call has committed over a table that held rows, and
\* at least one identifier of the table was not in its input
C30_Witness ==
  /\ epc = "idle"
  /\ last.kind = "returned"
  /\ evm_pools # {}
  /\ \E e \in evm_pools : \A i \in DOMAIN pool_rows : pool_rows[i].pool_id # e.pool_id

\* a run has failed and rolled back over tables that held rows
C30_FailureWitness ==
  /\ epc = "idle"
  /\ last.kind = "raised"
  /\ evm_pools # {}

\* update_top_500 has emptied a ranking table that held rows, with the rows
\* of the vault tables in place
C30_RankingEmptied ==
  /\ tpc = "deleted"
  /\ trun.old # {}
  /\ ttx = {}
  /\ vaults # {}
  /\ vault_metrics # {}
====
